---- MODULE Spec2Model ----
(***************************************************************************)
(* mini-redis: the listener / handler / shutdown machinery of server.rs    *)
(* and shutdown.rs, and the shared store with its expiration reaper of     *)
(* db.rs.                                                                  *)
(***************************************************************************)
EXTENDS Integers, Sequences, FiniteSets, TLC

\* ------------------------------------------------------------------ bounds

\* Connections the listener may accept during one run of the server.
MaxConns == 3

\* server.rs: const MAX_CONNECTIONS (250 in the source; the cap of the model).
MAX_CONNECTIONS == 2

\* server.rs, Listener::accept: `if backoff > 64` gives up.
\* Mutant of MaxBackoff: the limit of the backoff is half of what it is.
MaxBackoff_Half == 64 \div 2

MaxBackoff == 64

\* The clock runs from 0 to MaxTime.
MaxTime == 2

\* The longest TTL a set may ask for, in clock units.
MaxTtl == 1

\* Calls of set that may at once be between releasing the mutex and notify_one.
MaxPendingNotify == 1

Conns == 1..MaxConns

\* Publishes made on one channel during a run.
MaxPub == 3

\* Receivers handed out by subscribe during a run.
MaxRecv == 3

\* db.rs, Db::subscribe: broadcast::channel(1024) (1024 in the source; the
\* capacity of the model).
CAPACITY == 2

Recvs == 1..MaxRecv

\* --------------------------------------------------------------- variables

VARIABLES
    sig,        \* the external `shutdown` future handed to server::run has completed
    runPc,      \* position of server::run
    runRes,     \* which branch of run's select! completed: "none", "signal", "accept_err"
    lpc,        \* position of Listener::run / Listener::accept
    backoff,    \* Listener::accept's local `backoff` (0: no call of accept in progress)
    permits,    \* permits available in limit_connections
    notifyOpen, \* the broadcast sender notify_shutdown has not been dropped
    senders,    \* live clones of the mpsc sender shutdown_complete_tx
    nconn,      \* connections accepted so far; the next one gets id nconn + 1
    hpc,        \* per connection: position of the spawned task / Handler::run
    hcmd,       \* per connection: the command being applied ("none", "cmd", "sub")
    hshut,      \* per connection: Shutdown.is_shutdown
    hres,       \* per connection: result of Handler::run while the task still holds it
    avail,      \* per connection, while Handler::run runs: a complete frame is
                \* buffered or readable
    peerOpen,   \* per connection, while Handler::run runs: the peer has not
                \* closed the stream
    midCmd,     \* observation: the handlers still running that were inside
                \* cmd.apply of a non-streaming command when the shutdown
                \* broadcast fired
    dbShutdown, \* State.shutdown of the store owned by the listener's DbDropGuard
    entries,    \* State.entries: key -> Option<Entry> (None: no entry for the key)
    expirations,\* State.expirations: the BTreeSet of <<instant, key>>
    pub_sub,    \* State.pub_sub: the channels that have a broadcast sender
    notifyPermit, \* Shared.background_task (Notify) holds a wake permit
    now,        \* the clock read by Instant::now()
    rpc,        \* position of purge_expired_tasks (the reaper)
    rwhen,      \* the instant the reaper sleeps until, while it sleeps
    pendingNotify, \* set calls that released the mutex and owe a notify_one
    dropPc,     \* position of DbDropGuard::drop / shutdown_purge_task
    lastSet,    \* observation: per key, the arguments of the most recent set
    opRet,      \* observation: what the set or get that has just returned saw
    latestPending, \* observation: keys whose latest set (in lock order) has
                \* released the mutex but not yet returned to its caller
    published,  \* per channel, the number of publish calls made on it; the
                \* n-th publish on a channel carries the message n
    nrecv,      \* receivers handed out so far by subscribe
    rxState,    \* per receiver: "none" (not handed out), "live", "dropped"
    rxCh,       \* per receiver, the channel of its sender (an Option)
    rxq,        \* per receiver, the messages the channel retains for it
    rxLag,      \* per receiver, the messages it missed and has not been told of
    rxNext,     \* observation: per receiver, the message it is due next when
                \* nothing is lost
    txMade,     \* observation: per channel, the broadcast channels subscribe has
                \* created for it
    psRet,      \* observation: what the subscribe, publish or recv that has
                \* just returned gave back
    sock,       \* one connection: bytes the peer sent that read_buf has not read
    sockOpen,   \* the peer of that connection has not closed its side
    csent,      \* chunks the peer has sent on that connection
    cbuf,       \* Connection.buffer of that connection
    cpc,        \* position of Handler::run on that connection
    cframe,     \* the frame read_frame returned (an Option)
    ccmd,       \* the command from_frame returned, while it is applied
    cres,       \* result of Handler::run: "none", "ok", "err"
    cout,       \* the types of the frames written to the peer, in order
    cstream,    \* observation: every byte the peer has sent on that connection
    cframes,    \* observation: the frames read_frame has returned, in order
    exitCode,   \* the exit code of the server process once main has returned
                \* (an Option)
    fbuf,       \* a byte buffer handed to Frame::check and Frame::parse
    fsrc,       \* the frame write_frame wrote into that buffer (an Option)
    fchk,       \* what Frame::check returned on that buffer (an Option)
    fprs        \* what Frame::parse returned on that buffer (an Option)

srvVars == <<sig, runPc, runRes, lpc, backoff, permits, notifyOpen, senders, nconn,
             hpc, hcmd, hshut, hres, avail, peerOpen, midCmd>>

\* The receivers and what their channels retain for them.
psVars == <<published, nrecv, rxState, rxCh, rxq, rxLag, rxNext, txMade, psRet>>

\* One connection seen byte by byte.
connVars == <<sock, sockOpen, csent, cbuf, cpc, cframe, ccmd, cres, cout, cstream, cframes>>

\* A buffer decoded on its own.
frameVars == <<fbuf, fsrc, fchk, fprs>>

\* bin/server.rs: what main leaves behind.
mainVars == <<exitCode>>

dbVars == <<entries, expirations, pub_sub, now, rpc, rwhen, pendingNotify, dropPc,
            lastSet, opRet, latestPending, psVars, connVars, mainVars, frameVars>>

vars == <<srvVars, dbShutdown, notifyPermit, dbVars>>

\* What read_frame can hand to the handler for one complete frame: a command
\* other than SUBSCRIBE, a SUBSCRIBE, a frame that is no valid command, and
\* bytes that are no valid frame.
FrameKinds == {"cmd", "sub", "badcmd", "invalid"}

\* ------------------------------------------------------------ store data

Keys == {"a", "b"}
Vals == {"x", "y"}
Channels == {"ch1", "ch2"}

\* BTreeSet order of the String keys.
KeyRank(k) == IF k = "a" THEN 0 ELSE 1

\* Option<T> is the set of at most one T.
None == {}
Some(x) == {x}
Unwrap(o) == CHOOSE x \in o : TRUE

\* The Duration arguments of set: none, or 0..MaxTtl clock units.
Expires == {None} \cup {Some(d) : d \in 0..MaxTtl}

\* Db::new: empty maps, shutdown false, no wake permit, the reaper spawned.
InitDb ==
    /\ entries = [k \in Keys |-> None]
    /\ expirations = {}
    /\ pub_sub = {}
    /\ notifyPermit = FALSE
    /\ now = 0
    /\ rpc = "check"
    /\ rwhen = 0
    /\ pendingNotify = 0
    /\ dropPc = "live"
    /\ lastSet = [k \in Keys |-> None]
    /\ opRet = None
    /\ latestPending = {}
    /\ published = [ch \in Channels |-> 0]
    /\ nrecv = 0
    /\ rxState = [r \in Recvs |-> "none"]
    /\ txMade = [ch \in Channels |-> 0]
    /\ rxCh = [r \in Recvs |-> None]
    /\ rxq = [r \in Recvs |-> << >>]
    /\ rxLag = [r \in Recvs |-> 0]
    /\ rxNext = [r \in Recvs |-> 0]
    /\ psRet = None
    /\ sock = << >>
    /\ sockOpen = TRUE
    /\ csent = 0
    /\ cbuf = << >>
    /\ cpc = "read_frame"
    /\ cframe = None
    /\ ccmd = "none"
    /\ cres = "none"
    /\ cout = << >>
    /\ cstream = << >>
    /\ cframes = << >>
    /\ exitCode = None
    /\ fbuf = << >>
    /\ fsrc = None
    /\ fchk = None
    /\ fprs = None

\* ------------------------------------------------------------------- Init

InitServer ==
    /\ sig = FALSE
    /\ runPc = "select"
    /\ runRes = "none"
    /\ lpc = "acquire"
    /\ backoff = 0
    /\ permits = MAX_CONNECTIONS
    /\ notifyOpen = TRUE
    /\ senders = 1
    /\ nconn = 0
    /\ hpc = [c \in Conns |-> "none"]
    /\ hcmd = [c \in Conns |-> "none"]
    /\ hshut = [c \in Conns |-> FALSE]
    /\ hres = [c \in Conns |-> "none"]
    /\ avail = [c \in Conns |-> FALSE]
    /\ peerOpen = [c \in Conns |-> TRUE]
    /\ midCmd = {}
    /\ dbShutdown = FALSE
    /\ InitDb

\* ----------------------------------------------------- derived quantities

\* The task of connection c exists and has not yet dropped its permit.
HoldsPermit(c) == hpc[c] \in {"loop", "select", "apply", "returned"}

\* The task of connection c still owns its Handler (and so its sentinel clone).
Alive(c) == hpc[c] \in {"loop", "select", "apply", "returned", "permit_dropped"}

\* Handler::run of connection c has not returned yet.
Running(c) == hpc[c] \in {"loop", "select", "apply"}

\* The listener owns a permit between acquire_owned and spawn / error / cancel.
ListenerHoldsPermit == lpc \in {"accept", "sleep"}

LiveHandlers == {c \in Conns : Alive(c)}

\* ------------------------------------------------------ environment steps

\* The external shutdown future (ctrl_c) completes.
Signal ==
    /\ ~sig
    /\ sig' = TRUE
    /\ UNCHANGED <<runPc, runRes, lpc, backoff, permits, notifyOpen, senders, nconn,
                   hpc, hcmd, hshut, hres, avail, peerOpen, midCmd, dbShutdown, notifyPermit, dbVars>>

\* The peer of an accepted connection sends (the rest of) a complete frame.
PeerSend(c) ==
    /\ Running(c)
    /\ peerOpen[c]
    /\ ~avail[c]
    /\ avail' = [avail EXCEPT ![c] = TRUE]
    /\ UNCHANGED <<sig, runPc, runRes, lpc, backoff, permits, notifyOpen, senders,
                   nconn, hpc, hcmd, hshut, hres, peerOpen, midCmd, dbShutdown, notifyPermit, dbVars>>

\* The peer of an accepted connection closes its end of the stream.
PeerClose(c) ==
    /\ Running(c)
    /\ peerOpen[c]
    /\ peerOpen' = [peerOpen EXCEPT ![c] = FALSE]
    /\ UNCHANGED <<sig, runPc, runRes, lpc, backoff, permits, notifyOpen, senders,
                   nconn, hpc, hcmd, hshut, hres, avail, midCmd, dbShutdown, notifyPermit, dbVars>>

\* ---------------------------------------------------------- Listener::run

\* Mutant of ListenerAcquire: the listener goes on to accept without waiting
\* for a permit to be available.
ListenerAcquire_NoWait ==
    /\ runPc = "select"
    /\ lpc = "acquire"
    /\ permits' = IF permits > 0 THEN permits - 1 ELSE permits
    /\ backoff' = 1
    /\ lpc' = "accept"
    /\ UNCHANGED <<sig, runPc, runRes, notifyOpen, senders, nconn,
                   hpc, hcmd, hshut, hres, avail, peerOpen, midCmd, dbShutdown, notifyPermit,
                   dbVars>>

\* acquire_owned().await: take a permit, then enter accept() with backoff = 1.
ListenerAcquire ==
    /\ runPc = "select"
    /\ lpc = "acquire"
    /\ permits > 0
    /\ permits' = permits - 1
    /\ backoff' = 1
    /\ lpc' = "accept"
    /\ UNCHANGED <<sig, runPc, runRes, notifyOpen, senders, nconn,
                   hpc, hcmd, hshut, hres, avail, peerOpen, midCmd, dbShutdown, notifyPermit, dbVars>>

\* accept() succeeds: build the Handler (a Shutdown observer subscribed to
\* notify_shutdown, a clone of shutdown_complete_tx), spawn its task with the
\* permit moved into it, and loop back to acquire.
ListenerAcceptOk ==
    /\ runPc = "select"
    /\ lpc = "accept"
    /\ nconn < MaxConns
    /\ LET c == nconn + 1 IN
        /\ nconn' = c
        /\ hpc' = [hpc EXCEPT ![c] = "loop"]
        /\ hshut' = [hshut EXCEPT ![c] = FALSE]
    /\ senders' = senders + 1
    /\ backoff' = 0
    /\ lpc' = "acquire"
    /\ UNCHANGED <<sig, runPc, runRes, permits, notifyOpen,
                   hcmd, hres, avail, peerOpen, midCmd, dbShutdown, notifyPermit, dbVars>>

\* accept() fails with backoff <= 64: sleep for `backoff` seconds.
ListenerAcceptRetry ==
    /\ runPc = "select"
    /\ lpc = "accept"
    /\ ~(backoff > MaxBackoff)
    /\ lpc' = "sleep"
    /\ UNCHANGED <<sig, runPc, runRes, backoff, permits, notifyOpen, senders, nconn,
                   hpc, hcmd, hshut, hres, avail, peerOpen, midCmd, dbShutdown, notifyPermit, dbVars>>

\* Mutant of ListenerSleepDone: the backoff is not doubled.
ListenerSleepDone_NoDouble ==
    /\ runPc = "select"
    /\ lpc = "sleep"
    /\ backoff' = backoff
    /\ lpc' = "accept"
    /\ UNCHANGED <<sig, runPc, runRes, permits, notifyOpen, senders, nconn,
                   hpc, hcmd, hshut, hres, avail, peerOpen, midCmd, dbShutdown, notifyPermit, dbVars>>

\* The sleep is over: double the backoff and try again.
ListenerSleepDone ==
    /\ runPc = "select"
    /\ lpc = "sleep"
    /\ backoff' = backoff * 2
    /\ lpc' = "accept"
    /\ UNCHANGED <<sig, runPc, runRes, permits, notifyOpen, senders, nconn,
                   hpc, hcmd, hshut, hres, avail, peerOpen, midCmd, dbShutdown, notifyPermit, dbVars>>

\* accept() fails with backoff > 64: the error propagates through `?` out of
\* Listener::run (dropping the permit it holds), the first branch of run's
\* select! completes and run goes on to the shutdown sequence.
ListenerAcceptFatal ==
    /\ runPc = "select"
    /\ lpc = "accept"
    /\ backoff > MaxBackoff
    /\ permits' = permits + 1
    /\ backoff' = 0
    /\ lpc' = "err"
    /\ runRes' = "accept_err"
    /\ runPc' = "drop_notify"
    /\ UNCHANGED <<sig, notifyOpen, senders, nconn,
                   hpc, hcmd, hshut, hres, avail, peerOpen, midCmd, dbShutdown, notifyPermit, dbVars>>

\* ------------------------------------------------------------ server::run

\* The shutdown branch of run's select! completes: the server.run() future is
\* dropped, and with it the permit the listener may hold.
RunSelectShutdown ==
    /\ runPc = "select"
    /\ sig
    /\ permits' = IF ListenerHoldsPermit THEN permits + 1 ELSE permits
    /\ backoff' = 0
    /\ lpc' = "dropped"
    /\ runRes' = "signal"
    /\ runPc' = "drop_notify"
    /\ UNCHANGED <<sig, notifyOpen, senders, nconn,
                   hpc, hcmd, hshut, hres, avail, peerOpen, midCmd, dbShutdown, notifyPermit, dbVars>>

\* Mutant of RunDropNotify: taking `server` apart drops the rest of it at
\* once, the DbDropGuard included, before the drain.
RunDropNotify_DropsGuard ==
    /\ runPc = "drop_notify"
    /\ notifyOpen' = FALSE
    /\ runPc' = "drop_tx"
    /\ midCmd' = {c \in Conns : hpc[c] = "apply" /\ hcmd[c] = "cmd"}
    /\ dbShutdown' = TRUE
    /\ notifyPermit' = TRUE
    /\ UNCHANGED <<sig, runRes, lpc, backoff, permits, senders, nconn,
                   hpc, hcmd, hshut, hres, avail, peerOpen, dbVars>>

\* drop(notify_shutdown): the broadcast channel closes and every subscribed
\* receiver's recv() completes.
RunDropNotify ==
    /\ runPc = "drop_notify"
    /\ notifyOpen' = FALSE
    /\ runPc' = "drop_tx"
    /\ midCmd' = {c \in Conns : hpc[c] = "apply" /\ hcmd[c] = "cmd"}
    /\ UNCHANGED <<sig, runRes, lpc, backoff, permits, senders, nconn,
                   hpc, hcmd, hshut, hres, avail, peerOpen, dbShutdown, notifyPermit, dbVars>>

\* drop(shutdown_complete_tx): the listener's own sentinel clone goes away.
RunDropTx ==
    /\ runPc = "drop_tx"
    /\ senders' = senders - 1
    /\ runPc' = "drain"
    /\ UNCHANGED <<sig, runRes, lpc, backoff, permits, notifyOpen, nconn,
                   hpc, hcmd, hshut, hres, avail, peerOpen, midCmd, dbShutdown, notifyPermit, dbVars>>

\* Mutant of RunDrain: run returns without waiting for the sender clones of
\* the handlers to be dropped.
RunDrain_NoWait ==
    /\ runPc = "drain"
    /\ runPc' = "returned"
    /\ dbShutdown' = TRUE
    /\ notifyPermit' = TRUE
    /\ UNCHANGED <<sig, runRes, lpc, backoff, permits, notifyOpen, senders, nconn,
                   hpc, hcmd, hshut, hres, avail, peerOpen, midCmd, dbVars>>

\* shutdown_complete_rx.recv().await returns None once no sender clone is
\* left (nothing is ever sent on the channel); run then returns, dropping
\* the rest of `server`, the DbDropGuard included, whose drop sets the store's
\* shutdown flag and notifies the reaper.
RunDrain ==
    /\ runPc = "drain"
    /\ senders = 0
    /\ runPc' = "returned"
    /\ dbShutdown' = TRUE
    /\ notifyPermit' = TRUE
    /\ UNCHANGED <<sig, runRes, lpc, backoff, permits, notifyOpen, senders, nconn,
                   hpc, hcmd, hshut, hres, avail, peerOpen, midCmd, dbVars>>

\* -------------------------------------------------------------- Shutdown

\* Mutant of ShutdownRecvReady: recv completes only on a value sent on the
\* broadcast channel (none ever is), not when the sender is dropped.
ShutdownRecvReady_SentOnly(c) == hshut[c]

\* Shutdown::recv is ready: the signal was already received, or the wrapped
\* broadcast receiver's recv() completes because the sender was dropped.
ShutdownRecvReady(c) == hshut[c] \/ ~notifyOpen

\* ----------------------------------------------------------- Handler::run

\* Mutant of Return: a handler that returns an error takes every handler
\* that is still running down with it.
Return_TearsDown(c, res) ==
    /\ hpc' = [d \in Conns |->
                 IF d = c \/ (res = "err" /\ hpc[d] \in {"loop", "select", "apply"})
                   THEN "returned" ELSE hpc[d]]
    /\ hres' = [hres EXCEPT ![c] = res]
    /\ avail' = [avail EXCEPT ![c] = FALSE]
    /\ peerOpen' = [peerOpen EXCEPT ![c] = FALSE]
    /\ midCmd' = midCmd \ {c}

\* Handler::run of connection c returns `res`. Nothing reads the connection
\* any more, so its input is no longer tracked.
Return(c, res) ==
    /\ hpc' = [hpc EXCEPT ![c] = "returned"]
    /\ hres' = [hres EXCEPT ![c] = res]
    /\ avail' = [avail EXCEPT ![c] = FALSE]
    /\ peerOpen' = [peerOpen EXCEPT ![c] = FALSE]
    /\ midCmd' = midCmd \ {c}

\* The head of `while !self.shutdown.is_shutdown()`: leave the loop and return
\* Ok when the flag is latched, else enter the select!.
HLoop(c) ==
    /\ hpc[c] = "loop"
    /\ IF hshut[c]
         THEN Return(c, "ok")
         ELSE /\ hpc' = [hpc EXCEPT ![c] = "select"]
              /\ UNCHANGED <<hres, avail, peerOpen, midCmd>>
    /\ UNCHANGED <<sig, runPc, runRes, lpc, backoff, permits, notifyOpen, senders,
                   nconn, hcmd, hshut, dbShutdown, notifyPermit, dbVars>>

\* Mutant of HSelectShutdown: recv does not remember that the signal was
\* received.
HSelectShutdown_NoLatch(c) ==
    /\ hpc[c] = "select"
    /\ hshut[c] \/ ~notifyOpen
    /\ Return(c, "ok")
    /\ UNCHANGED <<sig, runPc, runRes, lpc, backoff, permits, notifyOpen, senders,
                   nconn, hcmd, hshut, dbShutdown, notifyPermit, dbVars>>

\* The select! completes on its shutdown.recv() branch: recv latches
\* is_shutdown and run returns Ok.
HSelectShutdown(c) ==
    /\ hpc[c] = "select"
    /\ ShutdownRecvReady(c)
    /\ hshut' = [hshut EXCEPT ![c] = TRUE]
    /\ Return(c, "ok")
    /\ UNCHANGED <<sig, runPc, runRes, lpc, backoff, permits, notifyOpen, senders,
                   nconn, hcmd, dbShutdown, notifyPermit, dbVars>>

\* The select! completes on its read_frame() branch with buffered bytes. The
\* select! is unbiased, so this branch may win while shutdown.recv() is ready
\* too. Invalid bytes make read_frame fail and a frame that is no valid
\* command makes Command::from_frame fail: both leave run through `?`. A
\* command goes on to cmd.apply. More frames may or may not be buffered behind
\* the one consumed.
HReadFrame(c) ==
    /\ hpc[c] = "select"
    /\ avail[c]
    /\ \E kind \in FrameKinds, more \in BOOLEAN :
        IF kind \in {"cmd", "sub"}
          THEN /\ hpc' = [hpc EXCEPT ![c] = "apply"]
               /\ hcmd' = [hcmd EXCEPT ![c] = kind]
               /\ avail' = [avail EXCEPT ![c] = more]
               /\ UNCHANGED <<hres, peerOpen, midCmd>>
          ELSE /\ Return(c, "err")
               /\ UNCHANGED hcmd
    /\ UNCHANGED <<sig, runPc, runRes, lpc, backoff, permits, notifyOpen, senders,
                   nconn, hshut, dbShutdown, notifyPermit, dbVars>>

\* The select! completes on its read_frame() branch at end of stream:
\* Ok(None) with an empty read buffer (run returns Ok), an error when bytes
\* of an unfinished frame are buffered (run returns Err).
HReadEof(c) ==
    /\ hpc[c] = "select"
    /\ ~avail[c]
    /\ ~peerOpen[c]
    /\ \E empty \in BOOLEAN : Return(c, IF empty THEN "ok" ELSE "err")
    /\ UNCHANGED <<sig, runPc, runRes, lpc, backoff, permits, notifyOpen, senders,
                   nconn, hcmd, hshut, dbShutdown, notifyPermit, dbVars>>

\* cmd.apply of a command other than SUBSCRIBE finishes: back to the loop head
\* when it returns Ok, out of run through `?` when writing the reply failed.
HApplyDone(c) ==
    /\ hpc[c] = "apply"
    /\ hcmd[c] = "cmd"
    /\ hcmd' = [hcmd EXCEPT ![c] = "none"]
    /\ \E ok \in BOOLEAN :
        IF ok
          THEN /\ hpc' = [hpc EXCEPT ![c] = "loop"]
               /\ UNCHANGED <<hres, avail, peerOpen, midCmd>>
          ELSE Return(c, "err")
    /\ UNCHANGED <<sig, runPc, runRes, lpc, backoff, permits, notifyOpen, senders,
                   nconn, hshut, dbShutdown, notifyPermit, dbVars>>

\* Mutant of HSubShutdown: the command returns on the signal without the
\* observer remembering it.
HSubShutdown_NoLatch(c) ==
    /\ hpc[c] = "apply"
    /\ hcmd[c] = "sub"
    /\ ShutdownRecvReady(c)
    /\ hcmd' = [hcmd EXCEPT ![c] = "none"]
    /\ hpc' = [hpc EXCEPT ![c] = "loop"]
    /\ UNCHANGED <<sig, runPc, runRes, lpc, backoff, permits, notifyOpen, senders,
                   nconn, hshut, hres, avail, peerOpen, midCmd, dbShutdown, notifyPermit,
                   dbVars>>

\* Subscribe mode observes the shutdown signal through the observer passed to
\* cmd.apply (which latches is_shutdown) and the command returns Ok.
HSubShutdown(c) ==
    /\ hpc[c] = "apply"
    /\ hcmd[c] = "sub"
    /\ ShutdownRecvReady(c)
    /\ hshut' = [hshut EXCEPT ![c] = TRUE]
    /\ hcmd' = [hcmd EXCEPT ![c] = "none"]
    /\ hpc' = [hpc EXCEPT ![c] = "loop"]
    /\ UNCHANGED <<sig, runPc, runRes, lpc, backoff, permits, notifyOpen, senders,
                   nconn, hres, avail, peerOpen, midCmd, dbShutdown, notifyPermit, dbVars>>

\* Subscribe mode reads a frame from the client: it stays in subscribe mode
\* (SUBSCRIBE, PING, an UNSUBSCRIBE that leaves channels), leaves it with Ok
\* (the subscription set became empty) or fails (any other frame).
HSubFrame(c) ==
    /\ hpc[c] = "apply"
    /\ hcmd[c] = "sub"
    /\ avail[c]
    /\ \E out \in {"stay", "exit", "err"}, more \in BOOLEAN :
        CASE out = "stay" -> /\ avail' = [avail EXCEPT ![c] = more]
                             /\ UNCHANGED <<hpc, hcmd, hres, peerOpen, midCmd>>
          [] out = "exit" -> /\ avail' = [avail EXCEPT ![c] = more]
                             /\ hpc' = [hpc EXCEPT ![c] = "loop"]
                             /\ hcmd' = [hcmd EXCEPT ![c] = "none"]
                             /\ UNCHANGED <<hres, peerOpen, midCmd>>
          [] out = "err"  -> /\ Return(c, "err")
                             /\ hcmd' = [hcmd EXCEPT ![c] = "none"]
    /\ UNCHANGED <<sig, runPc, runRes, lpc, backoff, permits, notifyOpen, senders,
                   nconn, hshut, dbShutdown, notifyPermit, dbVars>>

\* Subscribe mode meets the end of the stream: the command ends, with Ok on a
\* clean close and with the read error otherwise.
HSubEof(c) ==
    /\ hpc[c] = "apply"
    /\ hcmd[c] = "sub"
    /\ ~avail[c]
    /\ ~peerOpen[c]
    /\ hcmd' = [hcmd EXCEPT ![c] = "none"]
    /\ \E empty \in BOOLEAN :
        IF empty
          THEN /\ hpc' = [hpc EXCEPT ![c] = "loop"]
               /\ UNCHANGED <<hres, avail, peerOpen, midCmd>>
          ELSE Return(c, "err")
    /\ UNCHANGED <<sig, runPc, runRes, lpc, backoff, permits, notifyOpen, senders,
                   nconn, hshut, dbShutdown, notifyPermit, dbVars>>

\* ------------------------------------------------------- the spawned task

\* Mutant of HDropPermit: the task ends without giving its permit back.
HDropPermit_Leak(c) ==
    /\ hpc[c] = "returned"
    /\ hres' = [hres EXCEPT ![c] = "none"]
    /\ hpc' = [hpc EXCEPT ![c] = "permit_dropped"]
    /\ UNCHANGED <<sig, runPc, runRes, lpc, backoff, permits, notifyOpen, senders,
                   nconn, hcmd, hshut, avail, peerOpen, midCmd, dbShutdown, notifyPermit,
                   dbVars>>

\* handler.run() has returned and its result was logged: drop(permit) gives
\* the permit back to the semaphore.
HDropPermit(c) ==
    /\ hpc[c] = "returned"
    /\ permits' = permits + 1
    /\ hres' = [hres EXCEPT ![c] = "none"]
    /\ hpc' = [hpc EXCEPT ![c] = "permit_dropped"]
    /\ UNCHANGED <<sig, runPc, runRes, lpc, backoff, notifyOpen, senders,
                   nconn, hcmd, hshut, avail, peerOpen, midCmd, dbShutdown, notifyPermit, dbVars>>

\* The task's future completes and drops what it captured: the Handler with
\* its Connection (the stream is closed, the read buffer freed), Shutdown
\* observer and sentinel clone.
HDropHandler(c) ==
    /\ hpc[c] = "permit_dropped"
    /\ senders' = senders - 1
    /\ hshut' = [hshut EXCEPT ![c] = FALSE]
    /\ hpc' = [hpc EXCEPT ![c] = "done"]
    /\ UNCHANGED <<sig, runPc, runRes, lpc, backoff, permits, notifyOpen,
                   nconn, hcmd, hres, avail, peerOpen, midCmd, dbShutdown, notifyPermit,
                   dbVars>>

\* ------------------------------------------------------------------- main

\* The exit code of a process whose main returns the given Result: 0 for
\* Ok(()), 1 for Err.
ExitCodeOf(result) == IF result = "Ok" THEN 0 ELSE 1

\* bin/server.rs, main: server::run(..).await returns the unit value whatever
\* made it stop, and main goes on to `Ok(())`.
MainResult(res) == "Ok"

\* main returns once server::run has returned, and the process exits.
MainReturn ==
    /\ runPc = "returned"
    /\ exitCode = None
    /\ exitCode' = Some(ExitCodeOf(MainResult(runRes)))
    /\ UNCHANGED <<srvVars, dbShutdown, notifyPermit, entries, expirations, pub_sub, now,
                   rpc, rwhen, pendingNotify, dropPc, lastSet, opRet, latestPending,
                   psVars, connVars, frameVars>>

\* ------------------------------------------------------------------- Next

NextServer ==
    \/ Signal
    \/ \E c \in Conns : PeerSend(c)
    \/ \E c \in Conns : PeerClose(c)
    \/ ListenerAcquire
    \/ ListenerAcceptOk
    \/ ListenerAcceptRetry
    \/ ListenerSleepDone
    \/ ListenerAcceptFatal
    \/ RunSelectShutdown
    \/ RunDropNotify
    \/ RunDropTx
    \/ RunDrain
    \/ MainReturn
    \/ \E c \in Conns : HLoop(c)
    \/ \E c \in Conns : HSelectShutdown(c)
    \/ \E c \in Conns : HReadFrame(c)
    \/ \E c \in Conns : HReadEof(c)
    \/ \E c \in Conns : HApplyDone(c)
    \/ \E c \in Conns : HSubShutdown(c)
    \/ \E c \in Conns : HSubFrame(c)
    \/ \E c \in Conns : HSubEof(c)
    \/ \E c \in Conns : HDropPermit(c)
    \/ \E c \in Conns : HDropHandler(c)

SpecServer == InitServer /\ [][NextServer]_vars

\* ------------------------------------------------------------------ store

\* What the key/value operations and the reaper leave alone: the server's
\* variables, the receivers and the connection seen byte by byte.
srvOnly == <<srvVars, psVars, connVars, mainVars, frameVars>>

\* What subscribe, publish and the receivers leave alone: the key/value side
\* of the store and the reaper.
kvOnly == <<srvVars, dbShutdown, notifyPermit, entries, expirations, now, rpc, rwhen,
            pendingNotify, dropPc, lastSet, opRet, latestPending, connVars, mainVars, frameVars>>

\* BTreeSet order of (Instant, String): instant first, key as tie-break.
PairLess(p, q) == p[1] < q[1] \/ (p[1] = q[1] /\ KeyRank(p[2]) < KeyRank(q[2]))

\* expirations.iter().next(): the least pair of a non-empty index.
FirstPair(exps) == CHOOSE p \in exps : \A q \in exps : p = q \/ PairLess(p, q)

\* State::next_expiration
next_expiration(exps) == IF exps = {} THEN None ELSE Some(FirstPair(exps)[1])

\* Mutant of DbGet: the lookup never finds the entry.
DbGet_Nothing(ents, k) == None

\* Db::get on the locked state: the entry's data, or None.
DbGet(ents, k) == IF ents[k] = None THEN None ELSE Some(Unwrap(ents[k]).data)

\* Mutant of SetNotifyFlag: set never asks for the reaper to be woken.
SetNotifyFlag_Never(exps, expires_at) == FALSE

\* Mutant of SetNotifyFlag: set notifies only when it finds the index empty.
SetNotifyFlag_OnlyIfEmpty(exps, expires_at) ==
    expires_at # None /\ next_expiration(exps) = None

\* Mutant of SetNotifyFlag: a head of the index at the very instant of the
\* new expiration also makes set notify.
SetNotifyFlag_NotStrict(exps, expires_at) ==
    IF expires_at = None THEN FALSE
    ELSE IF next_expiration(exps) = None THEN TRUE
    ELSE Unwrap(next_expiration(exps)) >= Unwrap(expires_at)

\* The `notify` flag computed by set for an expiration at `when`: true when
\* the index is empty or its head is strictly later, taken on the index as it
\* is when set takes the lock (before the prior pair of the key is removed).
SetNotifyFlag(exps, expires_at) ==
    IF expires_at = None THEN FALSE
    ELSE IF next_expiration(exps) = None THEN TRUE
    ELSE Unwrap(next_expiration(exps)) > Unwrap(expires_at)

\* Mutant of SetExpirations: the pair of the prior binding stays in the index.
SetExpirations_KeepPrior(exps, prev, k, expires_at) ==
    IF expires_at # None THEN exps \cup {<<Unwrap(expires_at), k>>} ELSE exps

\* Mutant of SetExpirations: the new pair is inserted before the pair of the
\* prior binding is removed.
SetExpirations_InsertFirst(exps, prev, k, expires_at) ==
    LET inserted == IF expires_at # None THEN exps \cup {<<Unwrap(expires_at), k>>}
                                         ELSE exps
    IN  IF prev # None /\ Unwrap(prev).expires_at # None
          THEN inserted \ {<<Unwrap(Unwrap(prev).expires_at), k>>}
          ELSE inserted

\* The index after set: the pair of the prior binding (if it had an expiration)
\* removed first, then the new pair inserted.
SetExpirations(exps, prev, k, expires_at) ==
    LET removed == IF prev # None /\ Unwrap(prev).expires_at # None
                     THEN exps \ {<<Unwrap(Unwrap(prev).expires_at), k>>}
                     ELSE exps
    IN  IF expires_at # None THEN removed \cup {<<Unwrap(expires_at), k>>}
                             ELSE removed

\* Mutant of SetEntries: an existing binding of the key is kept.
SetEntries_IfAbsent(ents, k, v, expires_at) ==
    IF ents[k] = None
      THEN [ents EXCEPT ![k] = Some([data |-> v, expires_at |-> expires_at])]
      ELSE ents

\* state.entries.insert(key, Entry { data, expires_at }): the binding of the
\* key is replaced.
SetEntries(ents, k, v, expires_at) ==
    [ents EXCEPT ![k] = Some([data |-> v, expires_at |-> expires_at])]

\* The expiration instant of an Option<Entry>, None when there is no entry or
\* the entry never expires.
ExpiresAt(e) == IF e = None THEN None ELSE Unwrap(e).expires_at

\* Db::set up to drop(state): everything done under the mutex. opRet records
\* the key, the expiration of the binding replaced and the new expiration.
SetLocked(k, v, expire) ==
    /\ dropPc = "live"
    /\ pendingNotify < MaxPendingNotify
    /\ LET expires_at == IF expire = None THEN None ELSE Some(now + Unwrap(expire))
           notify == SetNotifyFlag(expirations, expires_at)
           prev == entries[k]
       IN  /\ entries' = SetEntries(entries, k, v, expires_at)
           /\ opRet' = Some([op |-> "set", key |-> k, old |-> ExpiresAt(prev),
                             new |-> expires_at, val |-> None])
           /\ expirations' = SetExpirations(expirations, prev, k, expires_at)
           /\ pendingNotify' = IF notify THEN pendingNotify + 1 ELSE pendingNotify
           /\ lastSet' = [lastSet EXCEPT ![k] = Some([data |-> v, expires_at |-> expires_at])]
           /\ latestPending' = IF notify THEN latestPending \cup {k}
                                          ELSE latestPending \ {k}
    /\ UNCHANGED <<srvOnly, dbShutdown, notifyPermit, pub_sub, now, rpc, rwhen, dropPc>>

\* The end of Db::set when `notify` is true: background_task.notify_one(),
\* after the mutex was released, and the return to the caller. The call that
\* returns is any of those pending: the latest set of some key, or one that a
\* later set of its key has already overtaken.
SetNotify ==
    /\ pendingNotify > 0
    /\ pendingNotify' = pendingNotify - 1
    /\ notifyPermit' = TRUE
    /\ opRet' = None
    /\ \E done \in {{}} \cup {{k} : k \in latestPending} :
          /\ latestPending' = latestPending \ done
          /\ Cardinality(latestPending') <= pendingNotify'
    /\ UNCHANGED <<srvOnly, dbShutdown, entries, expirations, pub_sub, now, rpc, rwhen,
                   dropPc, lastSet>>

\* Db::get: the data of the entry is cloned under the mutex and returned;
\* opRet records the key and the value returned.
Get(k) ==
    /\ dropPc = "live"
    /\ opRet' = Some([op |-> "get", key |-> k, old |-> None, new |-> None,
                      val |-> DbGet(entries, k)])
    /\ UNCHANGED <<srvOnly, dbShutdown, notifyPermit, entries, expirations, pub_sub, now,
                   rpc, rwhen, pendingNotify, dropPc, lastSet, latestPending>>

\* The receivers of the sender of channel ch that have not been dropped.
LiveOn(ch) == {r \in Recvs : rxState[r] = "live" /\ rxCh[r] = Some(ch)}

\* Mutant of SendCount: receivers that were dropped are counted too.
SendCount_CountsDropped(reg, ch) ==
    IF ch \in reg THEN Cardinality({r \in Recvs : rxCh[r] = Some(ch)}) ELSE 0

\* The value of Db::publish: tx.send(value) gives the number of receivers, or
\* an error when there is none, which becomes 0; no sender for the channel
\* gives 0 as well.
SendCount(reg, ch) == IF ch \in reg THEN Cardinality(LiveOn(ch)) ELSE 0

\* Mutant of Enqueue: nothing is ever dropped from the backlog.
Enqueue_Unbounded(q, m) == Append(q, m)

\* What a channel of capacity CAPACITY retains for a receiver after a send:
\* the new message is appended and, when the receiver already had CAPACITY
\* messages to read, the oldest is lost to it.
Enqueue(q, m) == IF Len(q) < CAPACITY THEN Append(q, m) ELSE Append(Tail(q), m)

\* The number of messages a receiver loses to a send: one when it already had
\* CAPACITY messages to read.
Overflow(q) == IF Len(q) < CAPACITY THEN 0 ELSE 1

\* Mutant of Targets: a send reaches the receivers of every channel.
Targets_AnyChannel(reg, ch) == {r \in Recvs : rxState[r] = "live"}

\* The receivers a publish on ch sends to: those of the channel's sender, if
\* the registry has one.
Targets(reg, ch) == IF ch \in reg THEN LiveOn(ch) ELSE {}

\* Mutant of NewSenders: every subscribe creates a broadcast channel.
NewSenders_Always(reg, ch) == 1

\* The broadcast channels a subscribe on ch creates: one when the registry's
\* entry for ch is vacant, none when it is occupied (the receiver then comes
\* from the sender already there).
NewSenders(reg, ch) == IF ch \in reg THEN 0 ELSE 1

\* Db::subscribe: the channel gets a sender on its first subscribe, and the
\* caller a new receiver of that sender, which sees the messages sent from
\* now on.
Subscribe(ch) ==
    /\ dropPc = "live"
    /\ nrecv < MaxRecv
    /\ LET r == nrecv + 1 IN
        /\ nrecv' = r
        /\ pub_sub' = pub_sub \cup {ch}
        /\ txMade' = [txMade EXCEPT ![ch] = txMade[ch] + NewSenders(pub_sub, ch)]
        /\ rxState' = [rxState EXCEPT ![r] = "live"]
        /\ rxCh' = [rxCh EXCEPT ![r] = Some(ch)]
        /\ rxq' = [rxq EXCEPT ![r] = << >>]
        /\ rxLag' = [rxLag EXCEPT ![r] = 0]
        /\ rxNext' = [rxNext EXCEPT ![r] = published[ch] + 1]
        /\ psRet' = Some([op |-> "subscribe", ch |-> ch, rx |-> r, n |-> 0, msg |-> None])
    /\ UNCHANGED <<kvOnly, published>>

\* Db::publish, one step under the mutex: sends on the channel's sender if
\* there is one and returns the number of receivers; the send never waits.
Publish(ch) ==
    /\ dropPc = "live"
    /\ published[ch] < MaxPub
    /\ LET m == <<ch, published[ch] + 1>>
           to == Targets(pub_sub, ch)
       IN  /\ published' = [published EXCEPT ![ch] = published[ch] + 1]
           /\ rxq' = [r \in Recvs |-> IF r \in to THEN Enqueue(rxq[r], m) ELSE rxq[r]]
           /\ rxLag' = [r \in Recvs |->
                          IF r \in to THEN rxLag[r] + Overflow(rxq[r]) ELSE rxLag[r]]
           /\ psRet' = Some([op |-> "publish", ch |-> ch, rx |-> 0,
                             n |-> SendCount(pub_sub, ch), msg |-> None])
    /\ UNCHANGED <<kvOnly, pub_sub, nrecv, rxState, rxCh, rxNext, txMade>>

\* The owner of a receiver takes its next message (subscribe mode, a message
\* on a subscribed receiver).
RecvMsg(r) ==
    /\ rxState[r] = "live"
    /\ rxLag[r] = 0
    /\ rxq[r] # << >>
    /\ rxq' = [rxq EXCEPT ![r] = Tail(rxq[r])]
    /\ rxNext' = [rxNext EXCEPT ![r] = rxNext[r] + 1]
    /\ psRet' = Some([op |-> "recv", ch |-> Unwrap(rxCh[r]), rx |-> r, n |-> 0,
                      msg |-> Some(Head(rxq[r]))])
    /\ UNCHANGED <<kvOnly, pub_sub, published, nrecv, rxState, rxCh, rxLag, txMade>>

\* The owner of a receiver that missed messages is told how many (the
\* receiver reports lag) and goes on from the oldest message retained.
RecvLagged(r) ==
    /\ rxState[r] = "live"
    /\ rxLag[r] > 0
    /\ rxLag' = [rxLag EXCEPT ![r] = 0]
    /\ rxNext' = [rxNext EXCEPT ![r] = rxNext[r] + rxLag[r]]
    /\ psRet' = Some([op |-> "lagged", ch |-> Unwrap(rxCh[r]), rx |-> r, n |-> rxLag[r],
                      msg |-> None])
    /\ UNCHANGED <<kvOnly, pub_sub, published, nrecv, rxState, rxCh, rxq, txMade>>

\* The owner of a receiver drops it (unsubscribe, or its connection ends);
\* the sender stays in the registry.
DropReceiver(r) ==
    /\ rxState[r] = "live"
    /\ rxState' = [rxState EXCEPT ![r] = "dropped"]
    /\ rxq' = [rxq EXCEPT ![r] = << >>]
    /\ rxLag' = [rxLag EXCEPT ![r] = 0]
    /\ rxNext' = [rxNext EXCEPT ![r] = 0]
    /\ psRet' = None
    /\ UNCHANGED <<kvOnly, pub_sub, published, nrecv, rxCh, txMade>>

NextPubSub ==
    \/ \E ch \in Channels : Subscribe(ch)
    \/ \E ch \in Channels : Publish(ch)
    \/ \E r \in Recvs : RecvMsg(r)
    \/ \E r \in Recvs : RecvLagged(r)
    \/ \E r \in Recvs : DropReceiver(r)

SpecPubSub == InitServer /\ [][NextPubSub]_vars

\* The clock advances.
Tick ==
    /\ now < MaxTime
    /\ now' = now + 1
    /\ opRet' = None
    /\ UNCHANGED <<srvOnly, dbShutdown, notifyPermit, entries, expirations, pub_sub,
                   rpc, rwhen, pendingNotify, dropPc, lastSet, latestPending>>

\* ----------------------------------------------------------------- reaper

\* Mutant of PurgeLoop: the loop does not look at the clock and empties the
\* index.
RECURSIVE PurgeLoop_IgnoresClock(_, _, _)
PurgeLoop_IgnoresClock(ents, exps, t) ==
    IF exps = {} THEN [entries |-> ents, expirations |-> exps, ret |-> None]
    ELSE LET p == FirstPair(exps) IN
         PurgeLoop_IgnoresClock([ents EXCEPT ![p[2]] = None], exps \ {p}, t)

\* Mutant of PurgeLoop: a pair whose instant is the current one is not due
\* yet.
RECURSIVE PurgeLoop_NotYet(_, _, _)
PurgeLoop_NotYet(ents, exps, t) ==
    IF exps = {} THEN [entries |-> ents, expirations |-> exps, ret |-> None]
    ELSE LET p == FirstPair(exps) IN
         IF p[1] >= t
           THEN [entries |-> ents, expirations |-> exps, ret |-> Some(p[1])]
           ELSE PurgeLoop_NotYet([ents EXCEPT ![p[2]] = None], exps \ {p}, t)

\* The loop of Shared::purge_expired_keys on (entries, index) at clock t: as
\* long as the least pair is due (not `when > now`), remove the entry of its
\* key and the pair; stop at the first later pair and return its instant, or
\* None when the index runs empty.
RECURSIVE PurgeLoop(_, _, _)
PurgeLoop(ents, exps, t) ==
    IF exps = {} THEN [entries |-> ents, expirations |-> exps, ret |-> None]
    ELSE LET p == FirstPair(exps) IN
         IF p[1] > t
           THEN [entries |-> ents, expirations |-> exps, ret |-> Some(p[1])]
           ELSE PurgeLoop([ents EXCEPT ![p[2]] = None], exps \ {p}, t)

\* Shared::purge_expired_keys: nothing and None when the store is shutting
\* down, else the loop.
purge_expired_keys(ents, exps, t, shut) ==
    IF shut THEN [entries |-> ents, expirations |-> exps, ret |-> None]
    ELSE PurgeLoop(ents, exps, t)

\* `while !shared.is_shutdown()`
ReaperCheck ==
    /\ rpc = "check"
    /\ rpc' = IF dbShutdown THEN "done" ELSE "purge"
    /\ opRet' = None
    /\ UNCHANGED <<srvOnly, dbShutdown, notifyPermit, entries, expirations, pub_sub, now,
                   rwhen, pendingNotify, dropPc, lastSet, latestPending>>

\* shared.purge_expired_keys(), then the reaper goes to sleep: until the
\* returned instant or a notification, or until a notification only.
ReaperPurge ==
    /\ rpc = "purge"
    /\ LET r == purge_expired_keys(entries, expirations, now, dbShutdown) IN
        /\ entries' = r.entries
        /\ expirations' = r.expirations
        /\ rpc' = IF r.ret = None THEN "wait" ELSE "sleep"
        /\ rwhen' = IF r.ret = None THEN 0 ELSE Unwrap(r.ret)
    /\ opRet' = None
    /\ UNCHANGED <<srvOnly, dbShutdown, notifyPermit, pub_sub, now, pendingNotify,
                   dropPc, lastSet, latestPending>>

\* time::sleep_until(when) completes.
ReaperTimer ==
    /\ rpc = "sleep"
    /\ now >= rwhen
    /\ rpc' = "check"
    /\ rwhen' = 0
    /\ opRet' = None
    /\ UNCHANGED <<srvOnly, dbShutdown, notifyPermit, entries, expirations, pub_sub, now,
                   pendingNotify, dropPc, lastSet, latestPending>>

\* background_task.notified() completes, consuming the wake permit.
ReaperNotified ==
    /\ rpc \in {"sleep", "wait"}
    /\ notifyPermit
    /\ notifyPermit' = FALSE
    /\ rpc' = "check"
    /\ rwhen' = 0
    /\ opRet' = None
    /\ UNCHANGED <<srvOnly, dbShutdown, entries, expirations, pub_sub, now,
                   pendingNotify, dropPc, lastSet, latestPending>>

\* ------------------------------------------------------------ DbDropGuard

\* Db::shutdown_purge_task, under the mutex: state.shutdown = true. The guard
\* is dropped when server::run returns, after every handler has finished, so
\* no set is half-way then.
DropGuardFlag ==
    /\ dropPc = "live"
    /\ pendingNotify = 0
    /\ dbShutdown' = TRUE
    /\ dropPc' = "flagged"
    /\ opRet' = None
    /\ UNCHANGED <<srvOnly, notifyPermit, entries, expirations, pub_sub, now, rpc, rwhen,
                   pendingNotify, lastSet, latestPending>>

\* Mutant of DropGuardNotify: the guard goes away without notify_one.
DropGuardNotify_Silent ==
    /\ dropPc = "flagged"
    /\ dropPc' = "dropped"
    /\ opRet' = None
    /\ UNCHANGED <<srvOnly, dbShutdown, notifyPermit, entries, expirations, pub_sub, now,
                   rpc, rwhen, pendingNotify, lastSet, latestPending>>

\* Db::shutdown_purge_task, after drop(state): background_task.notify_one().
DropGuardNotify ==
    /\ dropPc = "flagged"
    /\ notifyPermit' = TRUE
    /\ dropPc' = "dropped"
    /\ opRet' = None
    /\ UNCHANGED <<srvOnly, dbShutdown, entries, expirations, pub_sub, now, rpc, rwhen,
                   pendingNotify, lastSet, latestPending>>

NextDb ==
    \/ \E k \in Keys, v \in Vals, expire \in Expires : SetLocked(k, v, expire)
    \/ SetNotify
    \/ \E k \in Keys : Get(k)
    \/ Tick
    \/ ReaperCheck
    \/ ReaperPurge
    \/ ReaperTimer
    \/ ReaperNotified
    \/ DropGuardFlag
    \/ DropGuardNotify

SpecDb == InitServer /\ [][NextDb]_vars


\* Scheduling of the store: the reaper task and a set call that has released
\* the mutex are tasks that eventually take their next step. The clock, the
\* callers of set/get/subscribe/publish and the drop of the guard owe nothing.
FairDb ==
    /\ WF_vars(ReaperCheck)
    /\ WF_vars(ReaperPurge)
    /\ WF_vars(ReaperTimer)
    /\ WF_vars(ReaperNotified)
    /\ WF_vars(SetNotify)

FairSpecDb == SpecDb /\ FairDb

\* ------------------------------------------------------------------ frames

\* Bytes are one-character strings, CR and LF being "CR" and "LF".
Digits == {"0", "1", "2", "3", "4", "5", "6", "7", "8", "9"}

DigitVal(b) ==
    CASE b = "0" -> 0 [] b = "1" -> 1 [] b = "2" -> 2 [] b = "3" -> 3 [] b = "4" -> 4
      [] b = "5" -> 5 [] b = "6" -> 6 [] b = "7" -> 7 [] b = "8" -> 8 [] b = "9" -> 9

\* Results of the cursor functions: Ok with the new cursor position (and a
\* value), Error::Incomplete, or Error::Other.
Ok(pos, val) == [tag |-> "ok", pos |-> pos, val |-> val]
Incomplete == [tag |-> "incomplete", pos |-> 0, val |-> << >>]
Other == [tag |-> "other", pos |-> 0, val |-> << >>]

\* get_line: the bytes from the cursor up to the first CR LF at or after it,
\* the cursor moved past the LF; Incomplete when there is none. Positions
\* count the bytes before the cursor (0 at the start of the buffer).
get_line(buf, pos) ==
    LET ends == {i \in pos..(Len(buf) - 2) : buf[i + 1] = "CR" /\ buf[i + 2] = "LF"}
    IN  IF ends = {} THEN Incomplete
        ELSE LET i == CHOOSE j \in ends : \A k \in ends : j <= k
             IN  Ok(i + 2, SubSeq(buf, pos + 1, i))

\* atoi::<u64>: the value of the leading run of digits, None when the line
\* does not start with a digit.
RECURSIVE AtoiFrom(_, _, _)
AtoiFrom(line, i, acc) ==
    IF i > Len(line) \/ line[i] \notin Digits THEN acc
    ELSE AtoiFrom(line, i + 1, 10 * acc + DigitVal(line[i]))

atoi(line) ==
    IF line = << >> \/ line[1] \notin Digits THEN None ELSE Some(AtoiFrom(line, 1, 0))

\* get_decimal: a line read as a decimal, an error when it is none.
get_decimal(buf, pos) ==
    LET l == get_line(buf, pos) IN
    IF l.tag # "ok" THEN l
    ELSE IF atoi(l.val) = None THEN Other ELSE Ok(l.pos, Unwrap(atoi(l.val)))

\* skip: the cursor advanced by n bytes, Incomplete when fewer remain.
skip(buf, pos, n) == IF Len(buf) - pos < n THEN Incomplete ELSE Ok(pos + n, << >>)

\* Frame::check from a cursor position; CheckN checks n frames in a row (the
\* loop over the elements of an array).
RECURSIVE Check(_, _), CheckN(_, _, _)
Check(buf, pos) ==
    IF pos >= Len(buf) THEN Incomplete
    ELSE LET t == buf[pos + 1] IN
         CASE t \in {"+", "-"} ->
                  LET l == get_line(buf, pos + 1) IN
                  IF l.tag = "ok" THEN Ok(l.pos, << >>) ELSE l
           [] t = ":" ->
                  LET d == get_decimal(buf, pos + 1) IN
                  IF d.tag = "ok" THEN Ok(d.pos, << >>) ELSE d
           [] t = "$" ->
                  IF pos + 1 >= Len(buf) THEN Incomplete
                  ELSE IF buf[pos + 2] = "-" THEN skip(buf, pos + 1, 4)
                  ELSE LET d == get_decimal(buf, pos + 1) IN
                       IF d.tag = "ok" THEN skip(buf, d.pos, d.val + 2) ELSE d
           [] t = "*" ->
                  LET d == get_decimal(buf, pos + 1) IN
                  IF d.tag = "ok" THEN CheckN(buf, d.pos, d.val) ELSE d
           [] OTHER -> Other

CheckN(buf, pos, n) ==
    IF n = 0 THEN Ok(pos, << >>)
    ELSE LET c == Check(buf, pos) IN
         IF c.tag = "ok" THEN CheckN(buf, c.pos, n - 1) ELSE c

\* Frame::parse from a cursor position; ParseN parses n frames in a row into
\* a vector. The bytes of the model are ASCII, so String::from_utf8 succeeds.
\* A type byte that is none of the five is unimplemented!() (tag "panic").
RECURSIVE Parse(_, _), ParseN(_, _, _, _)
Parse(buf, pos) ==
    IF pos >= Len(buf) THEN Incomplete
    ELSE LET t == buf[pos + 1] IN
         CASE t = "+" ->
                  LET l == get_line(buf, pos + 1) IN
                  IF l.tag = "ok" THEN Ok(l.pos, [t |-> "Simple", v |-> l.val]) ELSE l
           [] t = "-" ->
                  LET l == get_line(buf, pos + 1) IN
                  IF l.tag = "ok" THEN Ok(l.pos, [t |-> "Error", v |-> l.val]) ELSE l
           [] t = ":" ->
                  LET d == get_decimal(buf, pos + 1) IN
                  IF d.tag = "ok" THEN Ok(d.pos, [t |-> "Integer", n |-> d.val]) ELSE d
           [] t = "$" ->
                  IF pos + 1 >= Len(buf) THEN Incomplete
                  ELSE IF buf[pos + 2] = "-"
                    THEN LET l == get_line(buf, pos + 1) IN
                         IF l.tag # "ok" THEN l
                         ELSE IF l.val # <<"-", "1">> THEN Other
                         ELSE Ok(l.pos, [t |-> "Null", v |-> << >>])
                    ELSE LET d == get_decimal(buf, pos + 1) IN
                         IF d.tag # "ok" THEN d
                         ELSE IF Len(buf) - d.pos < d.val + 2 THEN Incomplete
                         ELSE Ok(d.pos + d.val + 2,
                                 [t |-> "Bulk", v |-> SubSeq(buf, d.pos + 1, d.pos + d.val)])
           [] t = "*" ->
                  LET d == get_decimal(buf, pos + 1) IN
                  IF d.tag = "ok" THEN ParseN(buf, d.pos, d.val, << >>) ELSE d
           [] OTHER -> [tag |-> "panic", pos |-> 0, val |-> << >>]

ParseN(buf, pos, n, out) ==
    IF n = 0 THEN Ok(pos, [t |-> "Array", elems |-> out])
    ELSE LET f == Parse(buf, pos) IN
         IF f.tag = "ok" THEN ParseN(buf, f.pos, n - 1, Append(out, f.val)) ELSE f

\* Mutant of parse_frame: an error of check or of parse is taken as
\* "more bytes needed" and never leaves read_frame.
parse_frame_WaitsOnError(buf) ==
    LET c == Check(buf, 0)
        f == IF c.tag = "ok" THEN Parse(buf, 0) ELSE [tag |-> "none"] IN
    IF c.tag = "ok" /\ f.tag = "ok"
      THEN [kind |-> "frame", frame |-> f.val, rest |-> SubSeq(buf, c.pos + 1, Len(buf)),
            check |-> c.tag, parse |-> f.tag]
      ELSE [kind |-> "none", frame |-> << >>, rest |-> buf, check |-> c.tag, parse |-> f.tag]

\* Mutant of parse_frame: after a frame the whole buffer is dropped, not only
\* the bytes of the frame.
parse_frame_ClearsBuffer(buf) ==
    LET c == Check(buf, 0) IN
    CASE c.tag = "ok" ->
             LET f == Parse(buf, 0) IN
             IF f.tag = "ok"
               THEN [kind |-> "frame", frame |-> f.val, rest |-> << >>,
                     check |-> c.tag, parse |-> f.tag]
               ELSE [kind |-> "err", frame |-> << >>, rest |-> buf,
                     check |-> c.tag, parse |-> f.tag]
      [] c.tag = "incomplete" ->
             [kind |-> "none", frame |-> << >>, rest |-> buf, check |-> c.tag, parse |-> "none"]
      [] OTHER ->
             [kind |-> "err", frame |-> << >>, rest |-> buf, check |-> c.tag, parse |-> "none"]

\* Connection::parse_frame on the read buffer: a frame and the buffer left
\* once the length found by check is discarded; nothing (Ok(None)) when check
\* says Incomplete; an error when check says anything else or when parse
\* fails after check succeeded, whatever parse's error is.
parse_frame(buf) ==
    LET c == Check(buf, 0) IN
    CASE c.tag = "ok" ->
             LET f == Parse(buf, 0) IN
             IF f.tag = "ok"
               THEN [kind |-> "frame", frame |-> f.val, rest |-> SubSeq(buf, c.pos + 1, Len(buf)),
                     check |-> c.tag, parse |-> f.tag]
               ELSE [kind |-> "err", frame |-> << >>, rest |-> buf,
                     check |-> c.tag, parse |-> f.tag]
      [] c.tag = "incomplete" ->
             [kind |-> "none", frame |-> << >>, rest |-> buf, check |-> c.tag, parse |-> "none"]
      [] OTHER ->
             [kind |-> "err", frame |-> << >>, rest |-> buf, check |-> c.tag, parse |-> "none"]


\* -------------------------------------------------- one connection, in bytes

\* What the handler of the connection seen byte by byte leaves alone.
connOnly == <<srvVars, dbShutdown, notifyPermit, entries, expirations, pub_sub, now, rpc,
              rwhen, pendingNotify, dropPc, lastSet, opRet, latestPending, psVars, mainVars,
              frameVars>>

\* Chunks the peer may send in one write.
MaxSends == 3

PING == <<"P", "I", "N", "G">>

Chunks ==
    { <<"*", "1", "CR", "LF", "$", "4", "CR", "LF", "P", "I">>,   \* head of PING
      <<"N", "G", "CR", "LF">>,                                   \* its tail
      <<"*", "1", "CR", "LF", "+", "X", "CR", "LF">>,             \* unknown command X
      <<"*", "3", "CR", "LF", "+", "P", "I", "N", "G", "CR", "LF",
        "+", "a", "CR", "LF", "+", "b", "CR", "LF">>,             \* PING a b
      <<"$", "-", "1", "CR", "LF">>,                              \* Null
      <<"$", "-", "1", "CR", "X">>,                               \* no Null
      <<"!", "CR", "LF">>,                                        \* no type byte
      <<"+", "O", "K">> }                                         \* unfinished line

\* Command::from_frame: the frame must be a non-empty array whose first
\* element is a string, the command name; PING takes at most one argument
\* (finish rejects what is left over); any other name is the Unknown command.
from_frame(frame) ==
    IF frame.t # "Array" THEN "err"
    ELSE IF frame.elems = << >> THEN "err"
    ELSE IF frame.elems[1].t \notin {"Simple", "Bulk"} THEN "err"
    ELSE IF frame.elems[1].v = PING THEN (IF Len(frame.elems) <= 2 THEN "ping" ELSE "err")
    ELSE "unknown"

\* The kind of the frame cmd.apply writes back: PING answers with a string,
\* the Unknown command with an Error frame.
ReplyType(cmd) == IF cmd = "unknown" THEN "Error" ELSE "Reply"

\* The peer writes a chunk.
CPeerSend(chunk) ==
    /\ sockOpen
    /\ cpc # "returned"
    /\ csent < MaxSends
    /\ csent' = csent + 1
    /\ sock' = sock \o chunk
    /\ cstream' = cstream \o chunk
    /\ UNCHANGED <<connOnly, sockOpen, cbuf, cpc, cframe, ccmd, cres, cout, cframes>>

\* The peer closes its side.
CPeerClose ==
    /\ sockOpen
    /\ cpc # "returned"
    /\ sockOpen' = FALSE
    /\ UNCHANGED <<connOnly, sock, csent, cbuf, cpc, cframe, ccmd, cres, cout, cstream, cframes>>

\* Handler::run leaves with the given result and the task ends. The buffer
\* is kept as it was when run left, to tell what made it leave.
CReturn(res) ==
    /\ cpc' = "returned"
    /\ cres' = res
    /\ cbuf' = cbuf
    /\ cframe' = None
    /\ ccmd' = "none"

\* read_frame calls parse_frame: a frame is returned to Handler::run, or more
\* bytes are needed, or the error leaves read_frame and, through `?`,
\* Handler::run; nothing is written to the peer.
CParseFrame ==
    /\ cpc = "read_frame"
    /\ LET r == parse_frame(cbuf) IN
        CASE r.kind = "frame" -> /\ cbuf' = r.rest
                                 /\ cframe' = Some(r.frame)
                                 /\ cframes' = Append(cframes, r.frame)
                                 /\ cpc' = "from_frame"
                                 /\ UNCHANGED <<ccmd, cres>>
          [] r.kind = "none"  -> /\ cpc' = "read_buf"
                                 /\ UNCHANGED <<cbuf, cframe, ccmd, cres, cframes>>
          [] OTHER            -> CReturn("err") /\ UNCHANGED cframes
    /\ UNCHANGED <<connOnly, sock, sockOpen, csent, cout, cstream>>

\* stream.read_buf returns with some of the bytes that have arrived, at
\* least one.
CReadBuf ==
    /\ cpc = "read_buf"
    /\ \E n \in 1..Len(sock) :
        /\ cbuf' = cbuf \o SubSeq(sock, 1, n)
        /\ sock' = SubSeq(sock, n + 1, Len(sock))
    /\ cpc' = "read_frame"
    /\ UNCHANGED <<connOnly, sockOpen, csent, cframe, ccmd, cres, cout, cstream, cframes>>

\* Mutant of CReadEof: the end of the stream is always a clean close.
CReadEof_AlwaysOk ==
    /\ cpc = "read_buf"
    /\ sock = << >>
    /\ ~sockOpen
    /\ CReturn("ok")
    /\ UNCHANGED <<connOnly, sock, sockOpen, csent, cout, cstream, cframes>>

\* stream.read_buf returns 0: Ok(None) when the buffer is empty and run
\* returns Ok, else the peer reset the connection and run returns the error.
CReadEof ==
    /\ cpc = "read_buf"
    /\ sock = << >>
    /\ ~sockOpen
    /\ CReturn(IF cbuf = << >> THEN "ok" ELSE "err")
    /\ UNCHANGED <<connOnly, sock, sockOpen, csent, cout, cstream, cframes>>

\* Command::from_frame(frame)?: a command goes on to cmd.apply, an error
\* leaves Handler::run at once.
CFromFrame ==
    /\ cpc = "from_frame"
    /\ LET cmd == from_frame(Unwrap(cframe)) IN
        IF cmd = "err"
          THEN CReturn("err")
          ELSE /\ ccmd' = cmd
               /\ cframe' = None
               /\ cpc' = "apply"
               /\ UNCHANGED <<cbuf, cres>>
    /\ UNCHANGED <<connOnly, sock, sockOpen, csent, cout, cstream, cframes>>

\* cmd.apply(..).await?: the reply is written and the loop goes on, or the
\* write fails and the error leaves Handler::run.
CApply ==
    /\ cpc = "apply"
    /\ \E ok \in BOOLEAN :
        IF ok
          THEN /\ cout' = Append(cout, ReplyType(ccmd))
               /\ ccmd' = "none"
               /\ cpc' = "read_frame"
               /\ UNCHANGED <<cbuf, cframe, cres>>
          ELSE /\ CReturn("err")
               /\ UNCHANGED cout
    /\ UNCHANGED <<connOnly, sock, sockOpen, csent, cstream, cframes>>

NextConn ==
    \/ \E chunk \in Chunks : CPeerSend(chunk)
    \/ CPeerClose
    \/ CParseFrame
    \/ CReadBuf
    \/ CReadEof
    \/ CFromFrame
    \/ CApply

SpecConn == InitServer /\ [][NextConn]_vars

\* ------------------------------------------------- a buffer on its own

\* What decoding a buffer on its own leaves alone.
frameOnly == <<srvVars, dbShutdown, notifyPermit, entries, expirations, pub_sub, now, rpc,
               rwhen, pendingNotify, dropPc, lastSet, opRet, latestPending, psVars,
               connVars, mainVars>>

\* The longest buffer put together byte by byte.
MaxBufLen == 5

\* The bytes such a buffer is made of.
FrameAlphabet == {"+", "-", ":", "$", "*", "0", "1", "CR", "LF"}

\* The sequences over S of length at most n.
SeqsUpTo(S, n) == UNION {[1..m -> S] : m \in 0..n}

\* The longest text or data of a frame that is written, and the most
\* elements of an array that is written.
MaxText == 2

MaxElems == 2

\* Frames without a nested array: texts have no CR or LF, bulk data may.
Literals ==
    {[t |-> "Simple", v |-> x] : x \in SeqsUpTo({"a", "-", "1"}, MaxText)}
    \cup {[t |-> "Error", v |-> x] : x \in SeqsUpTo({"a", "-", "1"}, MaxText)}
    \cup {[t |-> "Integer", n |-> i] : i \in {0, 1, 7, 10, 205}}
    \cup {[t |-> "Bulk", v |-> x] : x \in SeqsUpTo({"a", "CR", "LF"}, MaxText)}
    \cup {[t |-> "Null", v |-> << >>]}

Frames == Literals \cup {[t |-> "Array", elems |-> x] : x \in SeqsUpTo(Literals, MaxElems)}

\* The ASCII digit of d.
DigitByte(d) == CHOOSE b \in Digits : DigitVal(b) = d

\* write!(&mut buf, "{}", val): the decimal digits of val.
RECURSIVE Decimal(_)
Decimal(val) ==
    IF val < 10 THEN <<DigitByte(val)>>
    ELSE Append(Decimal(val \div 10), DigitByte(val % 10))

\* Connection::write_decimal: the digits, then CRLF.
write_decimal(val) == Decimal(val) \o <<"CR", "LF">>

\* Mutant of write_value: the bulk data is not followed by CRLF.
write_value_BulkNoCrlf(frame) ==
    CASE frame.t = "Simple"  -> <<"+">> \o frame.v \o <<"CR", "LF">>
      [] frame.t = "Error"   -> <<"-">> \o frame.v \o <<"CR", "LF">>
      [] frame.t = "Integer" -> <<":">> \o Decimal(frame.n) \o <<"CR", "LF">>
      [] frame.t = "Null"    -> <<"$", "-", "1", "CR", "LF">>
      [] frame.t = "Bulk"    -> <<"$">> \o Decimal(Len(frame.v)) \o <<"CR", "LF">> \o frame.v

\* Connection::write_value, for a frame that is no array.
write_value(frame) ==
    CASE frame.t = "Simple"  -> <<"+">> \o frame.v \o <<"CR", "LF">>
      [] frame.t = "Error"   -> <<"-">> \o frame.v \o <<"CR", "LF">>
      [] frame.t = "Integer" -> <<":">> \o write_decimal(frame.n)
      [] frame.t = "Null"    -> <<"$", "-", "1", "CR", "LF">>
      [] frame.t = "Bulk"    -> <<"$">> \o write_decimal(Len(frame.v)) \o frame.v
                                   \o <<"CR", "LF">>

\* The bytes of the values of an array, one after the other.
RECURSIVE WriteValues(_)
WriteValues(val) ==
    IF val = << >> THEN << >> ELSE write_value(Head(val)) \o WriteValues(Tail(val))

\* Connection::write_frame: an array is written as its length and its
\* values, anything else as a value.
write_frame(frame) ==
    IF frame.t = "Array"
      THEN <<"*">> \o write_decimal(Len(frame.elems)) \o WriteValues(frame.elems)
      ELSE write_value(frame)

\* One more byte arrives in the buffer.
FramePush(b) ==
    /\ fsrc = None
    /\ Len(fbuf) < MaxBufLen
    /\ fbuf' = Append(fbuf, b)
    /\ fchk' = None
    /\ fprs' = None
    /\ UNCHANGED <<frameOnly, fsrc>>

\* write_frame writes a frame into the empty buffer.
FrameWrite(frame) ==
    /\ fsrc = None
    /\ fbuf = << >>
    /\ fsrc' = Some(frame)
    /\ fbuf' = write_frame(frame)
    /\ fchk' = None
    /\ fprs' = None
    /\ UNCHANGED frameOnly

\* Frame::check on the buffer from position zero.
FrameCheck ==
    /\ fchk = None
    /\ fchk' = Some(Check(fbuf, 0))
    /\ UNCHANGED <<frameOnly, fbuf, fsrc, fprs>>

\* Frame::parse on the buffer from position zero.
FrameParse ==
    /\ fchk # None
    /\ fprs = None
    /\ fprs' = Some(Parse(fbuf, 0))
    /\ UNCHANGED <<frameOnly, fbuf, fsrc, fchk>>

NextFrame ==
    \/ \E b \in FrameAlphabet : FramePush(b)
    \/ \E frame \in Frames : FrameWrite(frame)
    \/ FrameCheck
    \/ FrameParse

SpecFrame == InitServer /\ [][NextFrame]_vars


Spec == SpecServer

\* Scheduling: every task that can take a step eventually takes one (weak
\* fairness per task step). The select! of Handler::run picks among its ready
\* branches at random, so a handler that comes back to the select! again and
\* again with shutdown.recv() ready eventually takes that branch (strong
\* fairness of HSelectShutdown). Peers, the signal and accept errors are the
\* environment and owe nothing.
FairServer ==
    /\ WF_vars(RunSelectShutdown)
    /\ WF_vars(RunDropNotify)
    /\ WF_vars(RunDropTx)
    /\ WF_vars(RunDrain)
    /\ \A c \in Conns :
        /\ WF_vars(HLoop(c))
        /\ SF_vars(HSelectShutdown(c))
        /\ WF_vars(HApplyDone(c))
        /\ WF_vars(HSubShutdown(c))
        /\ WF_vars(HDropPermit(c))
        /\ WF_vars(HDropHandler(c))

FairSpec == SpecServer /\ FairServer

\* ----------------------------------------------------------------- claims

\* C1: server::run returns only when no Handler task is alive: in every state
\* where run has returned, every handler the accept loop spawned has finished
\* and dropped its clone of the drain sentinel, and no sender clone is left.
C1_RunReturnsAfterDrain ==
    runPc = "returned" => (senders = 0 /\ \A c \in Conns : hpc[c] \in {"none", "done"})

\* C1 witness: run has returned after at least two handlers were spawned and
\* have finished.
C1_Witness ==
    /\ runPc = "returned"
    /\ nconn >= 2
    /\ \A c \in 1..nconn : hpc[c] = "done"

\* The state the shutdown sequence ends in: run has returned, no handler is
\* left, every permit is back in the semaphore.
AllDrained ==
    /\ runPc = "returned"
    /\ \A c \in Conns : hpc[c] \in {"none", "done"}
    /\ senders = 0
    /\ permits = MAX_CONNECTIONS

C3_ConnectionCap ==
    /\ Cardinality({c \in Conns : HoldsPermit(c)}) <= MAX_CONNECTIONS
    /\ Cardinality({c \in Conns : HoldsPermit(c)}) = MAX_CONNECTIONS
         => (permits = 0 /\ ~ListenerHoldsPermit)

\* C3 witness: MAX_CONNECTIONS handlers are running, the listener is blocked
\* acquiring a permit and another client has yet to be accepted.
C3_Witness ==
    /\ Cardinality({c \in Conns : Running(c)}) = MAX_CONNECTIONS
    /\ runPc = "select"
    /\ lpc = "acquire"
    /\ permits = 0
    /\ nconn < MaxConns

\* C4: permits are neither leaked nor duplicated: the permits available, plus
\* one per handler task that has not dropped its permit, plus the one the
\* listener holds between acquire and spawn, always make MAX_CONNECTIONS.
C4_PermitConservation ==
    permits + Cardinality({c \in Conns : HoldsPermit(c)})
            + (IF ListenerHoldsPermit THEN 1 ELSE 0) = MAX_CONNECTIONS

\* C4 witness: one handler has finished and another has just given its
\* permit back after leaving on the shutdown path, with the listener gone.
C4_Witness ==
    /\ \E c \in Conns : hpc[c] = "done"
    /\ \E c \in Conns : hpc[c] = "permit_dropped" /\ hshut[c]
    /\ lpc = "dropped"

\* C5 (as claimed): once the shutdown broadcast has fired, a handler that was
\* applying a command at that moment completes it and exits; it never goes
\* from the select! into cmd.apply of a further command.
C5_NoCommandAfterShutdown ==
    [][\A c \in midCmd : hpc[c] = "select" => hpc'[c] # "apply"]_vars

\* A handler waiting in the select! with no complete frame buffered and an
\* idle peer, after the shutdown broadcast has fired.
IdleAtShutdown(c) ==
    /\ hpc[c] = "select"
    /\ ~avail[c]
    /\ peerOpen[c]
    /\ ~notifyOpen

\* C6: a handler waiting in the select! with nothing to read and an idle peer
\* when the shutdown broadcast has fired takes no step but returning Ok from
\* Handler::run with the signal latched, and, unless the peer acts first, it
\* does return.
C6_IdleHandlerReturnsOk ==
    /\ [][\A c \in Conns :
            (IdleAtShutdown(c) /\ hpc'[c] # hpc[c])
               => (hpc'[c] = "returned" /\ hres'[c] = "ok" /\ hshut'[c])]_vars
    /\ \A c \in Conns :
          IdleAtShutdown(c) ~> (hpc[c] = "returned" \/ avail[c] \/ ~peerOpen[c])

\* C6 witness: after the broadcast fired, one handler has returned Ok with the
\* signal latched while another still waits idle in its select!.
C6_Witness ==
    \E c, d \in Conns :
        /\ IdleAtShutdown(c)
        /\ hpc[d] = "returned"
        /\ hres[d] = "ok"
        /\ hshut[d]

\* The pairs the entries call for: one per entry that has an expiration.
EntryPairs ==
    {<<Unwrap(ExpiresAt(entries[k])), k>> : k \in {j \in Keys : ExpiresAt(entries[j]) # None}}

\* C7: in every state outside the store mutex, after any interleaving of set,
\* get, subscribe, publish and reaper purges, the pair (instant, key) is in
\* the expiration index if and only if entries[key] exists with that
\* expires_at; so every key has at most one pair, and keys sharing an instant
\* are all indexed.
C7_IndexMatchesEntries ==
    /\ expirations = EntryPairs
    /\ \A k \in Keys : Cardinality({p \in expirations : p[2] = k}) <= 1

\* C7 witness: two keys expire at the same instant and both are indexed, one
\* of them by a set that has just overwritten a binding with an expiration.
C7_Witness ==
    /\ \E t \in 0..(MaxTime + MaxTtl) :
          /\ expirations = {<<t, k>> : k \in Keys}
          /\ \A k \in Keys : ExpiresAt(entries[k]) = Some(t)
    /\ opRet # None
    /\ Unwrap(opRet).op = "set"
    /\ Unwrap(opRet).old # None

\* A key whose binding is due: it has an expiration that the clock has reached.
Expired(k) == ExpiresAt(entries[k]) # None /\ Unwrap(ExpiresAt(entries[k])) <= now

\* C8: a binding set with a TTL is removed by the reaper once the clock has
\* reached its expiration, unless the key is set again or the store is shut
\* down, whatever the reaper was waiting on when the set happened.
C8_ExpiredKeyPurged ==
    \A k \in Keys : (Expired(k) /\ ~dbShutdown) ~> (~Expired(k) \/ dbShutdown)

\* C8 witness: the most recent set of a key carried a TTL, the clock has
\* passed its expiration, and the reaper has removed the key and gone back to
\* waiting while the store is live.
C8_Witness ==
    /\ ~dbShutdown
    /\ rpc \in {"sleep", "wait"}
    /\ \E k \in Keys :
          /\ ExpiresAt(lastSet[k]) # None
          /\ Unwrap(ExpiresAt(lastSet[k])) <= now
          /\ entries[k] = None

\* C9: when a set that overwrote a binding with an expiration returns, the
\* old pair is in the index only if the new binding expires at that very
\* instant, and the key has one pair if the new binding expires and none if
\* it does not.
C9_OldPairRemoved ==
    \A r \in opRet :
        (r.op = "set" /\ r.old # None) =>
            /\ (<<Unwrap(r.old), r.key>> \in expirations) <=> (r.new = r.old)
            /\ {p \in expirations : p[2] = r.key}
                  = {<<t, r.key>> : t \in r.new}

\* C9 witness: a set has just overwritten a binding with an expiration by one
\* expiring at the very same instant, and that pair is in the index.
C9_Witness ==
    \E r \in opRet :
        /\ r.op = "set"
        /\ r.old # None
        /\ r.new = r.old
        /\ <<Unwrap(r.new), r.key>> \in expirations

\* C10: get(k) returns the data of the most recent set(k) in lock order:
\* None when k was never set, the value set when the binding had no TTL, and
\* the value set or (only once its expiration is reached) None when it had.
C10_GetSeesLastSet ==
    \A r \in opRet :
        r.op = "get" =>
            IF lastSet[r.key] = None THEN r.val = None
            ELSE LET ls == Unwrap(lastSet[r.key]) IN
                 IF ls.expires_at = None THEN r.val = Some(ls.data)
                 ELSE \/ r.val = Some(ls.data)
                      \/ r.val = None /\ Unwrap(ls.expires_at) <= now

\* C10 witness: a get has just returned the value of the most recent set of
\* its key, a set without TTL made after the clock had advanced, while the
\* other key holds another value.
C10_Witness ==
    \E r \in opRet :
        /\ r.op = "get"
        /\ now > 0
        /\ ExpiresAt(lastSet[r.key]) = None
        /\ lastSet[r.key] # None
        /\ r.val = Some(Unwrap(lastSet[r.key]).data)
        /\ \E j \in Keys \ {r.key} : DbGet(entries, j) \notin {None, r.val}

\* C11 (as claimed): a get of a key whose binding is still there observes the
\* latest set of the key if and only if that set had returned to its caller
\* before the get took the store lock.
C11_ObservesIffReturned ==
    \A r \in opRet :
        (r.op = "get" /\ lastSet[r.key] # None /\ entries[r.key] = lastSet[r.key]) =>
            (r.val = Some(Unwrap(lastSet[r.key]).data) <=> r.key \notin latestPending)

\* C11 (amended): a get observes the latest set of its key in lock order
\* whenever that set's binding has not been purged, whether or not the set
\* has returned to its caller yet; in particular it observes every set that
\* returned before the get took the lock.
C11_ObservesIffLockedBefore ==
    \A r \in opRet :
        (r.op = "get" /\ lastSet[r.key] # None) =>
            /\ entries[r.key] = lastSet[r.key]
                  <=> r.val = Some(Unwrap(lastSet[r.key]).data)
            /\ (r.key \notin latestPending /\ ~Expired(r.key) /\ entries[r.key] # None)
                  => r.val = Some(Unwrap(lastSet[r.key]).data)

\* C11 witness: a get has just observed a set that has released the mutex but
\* has not returned to its caller yet.
C11_Witness ==
    \E r \in opRet :
        /\ r.op = "get"
        /\ r.key \in latestPending
        /\ pendingNotify > 0
        /\ r.val = Some(Unwrap(lastSet[r.key]).data)

\* The messages that receiver r still has to be given, when it has n of them:
\* the last n published on its channel, oldest first.
LastPublished(r, n) ==
    [i \in 1..n |-> <<Unwrap(rxCh[r]), published[Unwrap(rxCh[r])] - n + i>>]

\* C12: a receiver returned by subscribe(c) is delivered exactly the messages
\* published on c after the subscribe, in publish order, and none published
\* before it, up to the loss of the oldest messages when it lags by more than
\* the capacity: a new receiver has nothing to read and is due the next
\* message to be published; what a live receiver has yet to read is, in order,
\* every message of its channel from the one it is due (past those it lost) to
\* the last published; and recv gives it the message it is due.
C12_DeliversWhatFollowsSubscribe ==
    /\ \A r \in Recvs :
          rxState[r] = "live" =>
              /\ rxq[r] = LastPublished(r, Len(rxq[r]))
              /\ rxNext[r] + rxLag[r] + Len(rxq[r]) = published[Unwrap(rxCh[r])] + 1
    /\ \A p \in psRet :
          /\ p.op = "subscribe" =>
                (rxq[p.rx] = << >> /\ rxNext[p.rx] = published[p.ch] + 1)
          /\ p.op = "recv" => p.msg = Some(<<p.ch, rxNext[p.rx] - 1>>)

\* C12 witness: a receiver that subscribed after a first message had been
\* published on its channel has just been given the second one, while
\* another message was published on the other channel.
C12_Witness ==
    \E p \in psRet :
        /\ p.op = "recv"
        /\ p.msg = Some(<<p.ch, 2>>)
        /\ rxNext[p.rx] = 3
        /\ \E ch \in Channels \ {p.ch} : published[ch] > 0 /\ ch \in pub_sub

\* C13: publish returns the number of receivers subscribed to the channel and
\* alive at the moment of the send, and 0 both when the channel has no sender
\* in the registry and when every receiver of its sender has been dropped.
C13_PublishCountsLiveReceivers ==
    \A p \in psRet :
        p.op = "publish" =>
            /\ p.n = Cardinality({r \in Recvs : rxState[r] = "live" /\ rxCh[r] = Some(p.ch)})
            /\ p.ch \notin pub_sub => p.n = 0
            /\ (\A r \in Recvs : rxCh[r] = Some(p.ch) => rxState[r] = "dropped") => p.n = 0

\* C13 witness: a publish has just returned 0 on a channel whose sender is in
\* the registry and whose only receiver has been dropped, while the other
\* channel has a live receiver.
C13_Witness ==
    \E p \in psRet :
        /\ p.op = "publish"
        /\ p.n = 0
        /\ p.ch \in pub_sub
        /\ \E r \in Recvs : rxCh[r] = Some(p.ch) /\ rxState[r] = "dropped"
        /\ \E r \in Recvs : rxState[r] = "live"

\* C14: publish never waits for subscribers: it can be taken whatever the
\* receivers have left unread, a receiver never has more than CAPACITY
\* messages retained for it, and what is retained is the most recent messages
\* (the oldest are lost first, and only when CAPACITY are retained).
C14_PublishNeverWaits ==
    /\ \A ch \in Channels :
          (dropPc = "live" /\ published[ch] < MaxPub) => ENABLED Publish(ch)
    /\ \A r \in Recvs :
          rxState[r] = "live" =>
              /\ Len(rxq[r]) <= CAPACITY
              /\ rxq[r] # << >> =>
                    rxq[r][Len(rxq[r])] = <<Unwrap(rxCh[r]), published[Unwrap(rxCh[r])]>>
              /\ rxLag[r] > 0 => Len(rxq[r]) = CAPACITY

\* C14 witness: a publish has just completed on a channel whose subscriber
\* has never read: the subscriber has CAPACITY messages retained and has
\* lost the oldest one.
C14_Witness ==
    \E p \in psRet, r \in Recvs :
        /\ p.op = "publish"
        /\ rxState[r] = "live"
        /\ rxCh[r] = Some(p.ch)
        /\ rxNext[r] = 1
        /\ Len(rxq[r]) = CAPACITY
        /\ rxLag[r] >= 1
        /\ published[p.ch] = CAPACITY + rxLag[r]

\* C15 (as claimed): for every shutdown observer, is_shutdown() is false in
\* every state before the shutdown broadcast fires, true in every state once
\* it has fired, and once true it stays true for as long as the observer lives.
C15_IsShutdownTracksBroadcast ==
    /\ [](\A c \in Conns : Alive(c) => (hshut[c] <=> ~notifyOpen))
    /\ [][\A c \in Conns : (hshut[c] /\ Alive(c) /\ hpc'[c] # "done") => hshut'[c]]_vars

\* A step of the handler of the connection seen byte by byte.
HandlerStep == cpc' # cpc

\* The handler stands before a protocol violation: the buffered bytes make
\* parse_frame fail, or the frame it read is no valid command.
MalformedFrame == cpc = "read_frame" /\ parse_frame(cbuf).kind = "err"

BadCommand == cpc = "from_frame" /\ from_frame(Unwrap(cframe)) = "err"

\* C16: when a handler receives a malformed frame, or a well-formed frame
\* that is no valid command, its next step writes an Error frame to the
\* client, before the handler terminates or continues.
C16_ErrorFrameOnViolation ==
    [][(HandlerStep /\ (MalformedFrame \/ BadCommand))
          => (Len(cout') = Len(cout) + 1 /\ cout'[Len(cout')] = "Error")]_vars

\* Invalid as the statement has it: check or parse reports an error other
\* than Incomplete.
InvalidNotIncomplete(buf) ==
    LET r == parse_frame(buf) IN r.check = "other" \/ r.parse \in {"other", "panic"}

\* Incomplete alone: check or parse reports Incomplete and neither reports
\* another error.
IncompleteAlone(buf) ==
    LET r == parse_frame(buf) IN
    /\ r.check = "incomplete" \/ r.parse = "incomplete"
    /\ ~InvalidNotIncomplete(buf)

\* Invalid as the code has it: check reports an error other than Incomplete,
\* or check succeeds and parse fails, with Incomplete or with anything else.
Invalid(buf) ==
    LET r == parse_frame(buf) IN
    r.check = "other" \/ (r.check = "ok" /\ r.parse # "ok")

\* Once Handler::run has returned nothing more is read, applied or written
\* on the connection.
ReturnedIsFinal ==
    cpc = "returned"
       => (cpc' = "returned" /\ cres' = cres /\ cbuf' = cbuf /\ sock' = sock /\ cout' = cout)

\* C17 (as stated): on Invalid buffered bytes read_frame returns Err, the
\* handler returns with nothing further read, applied or written and the
\* connection is closed; Incomplete alone never closes the connection and
\* writes nothing to the client.
C17_IncompleteAloneNeverCloses ==
    /\ [][(HandlerStep /\ cpc = "read_frame" /\ InvalidNotIncomplete(cbuf))
             => (cpc' = "returned" /\ cres' = "err" /\ cout' = cout)]_vars
    /\ [][ReturnedIsFinal]_vars
    /\ [][(HandlerStep /\ cpc = "read_frame" /\ IncompleteAlone(cbuf))
             => (cpc' # "returned" /\ cout' = cout)]_vars

\* C17 (what the code does guarantee): the same, with Invalid being an error
\* of check other than
\* Incomplete or any failure of parse after check succeeded, and with only an
\* Incomplete of check keeping the connection open: the handler then goes on
\* to read more bytes, the buffer untouched and nothing written.
C17_InvalidClosesCheckIncompleteWaits ==
    /\ [][(HandlerStep /\ cpc = "read_frame" /\ Invalid(cbuf))
             => (cpc' = "returned" /\ cres' = "err" /\ cout' = cout)]_vars
    /\ [][ReturnedIsFinal]_vars
    /\ [][(HandlerStep /\ cpc = "read_frame" /\ parse_frame(cbuf).check = "incomplete")
             => (cpc' = "read_buf" /\ cbuf' = cbuf /\ cout' = cout)]_vars

\* The handler has answered a command and then returned the error of a
\* buffer that check accepts and parse finds Incomplete.
C17_Witness ==
    /\ cpc = "returned"
    /\ cres = "err"
    /\ cout # << >>
    /\ parse_frame(cbuf).check = "ok"
    /\ parse_frame(cbuf).parse = "incomplete"

\* Handler::run of connection c returns an error in this step.
ErrorReturn(c) == hpc[c] # "returned" /\ hpc'[c] = "returned" /\ hres'[c] = "err"

\* The step leaves alone every handler but c, the listener, run, the
\* shutdown broadcast and the store.
Isolated(c) ==
    /\ \A d \in Conns \ {c} :
          /\ hpc'[d] = hpc[d]
          /\ hcmd'[d] = hcmd[d]
          /\ hshut'[d] = hshut[d]
          /\ hres'[d] = hres[d]
          /\ avail'[d] = avail[d]
          /\ peerOpen'[d] = peerOpen[d]
    /\ lpc' = lpc /\ backoff' = backoff /\ nconn' = nconn
    /\ runPc' = runPc /\ runRes' = runRes /\ notifyOpen' = notifyOpen
    /\ entries' = entries /\ expirations' = expirations /\ pub_sub' = pub_sub
    /\ dbShutdown' = dbShutdown

\* C18: when one handler ends with an error, the step in which it returns
\* touches no other handler, not the listener, not run and not the store and
\* releases nothing; its task then gives back exactly one permit and then
\* drops exactly one sentinel, again touching nothing else; and the store's
\* shutdown flag is false while a handler has returned an error.
C18_ErrorIsIsolated ==
    /\ [][\A c \in Conns :
            ErrorReturn(c) => (Isolated(c) /\ permits' = permits /\ senders' = senders)]_vars
    /\ [][\A c \in Conns :
            (hpc[c] = "returned" /\ hres[c] = "err" /\ hpc'[c] # hpc[c])
               => /\ hpc'[c] = "permit_dropped"
                  /\ permits' = permits + 1
                  /\ senders' = senders
                  /\ Isolated(c)]_vars
    /\ [][\A c \in Conns :
            (hpc[c] = "permit_dropped" /\ hpc'[c] # hpc[c])
               => /\ hpc'[c] = "done"
                  /\ senders' = senders - 1
                  /\ permits' = permits
                  /\ Isolated(c)]_vars
    /\ [](\A c \in Conns : (hpc[c] = "returned" /\ hres[c] = "err") => ~dbShutdown)

\* One handler has returned an error while another one is running, the
\* listener waits for a permit and run is still in its select!.
C18_Witness ==
    \E c, d \in Conns :
        /\ hpc[c] = "returned" /\ hres[c] = "err"
        /\ hpc[d] \in {"select", "apply"}
        /\ lpc = "acquire"
        /\ runPc = "select"
        /\ ~dbShutdown

\* accept() fails in this step: Listener::accept goes to sleep or gives up.
AcceptFails == lpc = "accept" /\ lpc' \in {"sleep", "err"}

\* The failure in this step is the n-th in a row of this call of accept: the
\* backoff starts at 1 and doubles after each failure.
NthFailure(n) == AcceptFails /\ backoff = 2 ^ (n - 1)

C20_BackoffSequence ==
    /\ [](lpc = "sleep" => backoff \in {1, 2, 4, 8, 16, 32, 64})
    /\ [][(lpc # "accept" /\ lpc' = "accept")
             => (lpc \in {"acquire", "sleep"}
                 /\ backoff' = IF lpc = "sleep" THEN 2 * backoff ELSE 1)]_vars
    /\ [][(lpc = "accept" /\ lpc' = "sleep") => backoff' = backoff]_vars
    /\ [][(lpc = "accept" /\ lpc' = "acquire") => nconn' = nconn + 1]_vars

\* The listener sleeps 64 seconds, having accepted a connection before.
C20_Witness == lpc = "sleep" /\ backoff = 64 /\ nconn >= 1

\* C21: the server process exits with code 0 when it stopped through
\* graceful shutdown and with a non-zero code when it stopped because the
\* accept loop gave up.
C21_ExitCodeTellsWhyItStopped ==
    exitCode # None =>
        /\ runRes = "signal" => Unwrap(exitCode) = 0
        /\ runRes = "accept_err" => Unwrap(exitCode) # 0

\* C22: once the store's drop guard is destroyed (shutdown flag set and the
\* reaper notified) the reaper task eventually exits, wherever it stood.
C22_ReaperExitsAfterDrop == (dropPc = "dropped") ~> (rpc = "done")

\* The reaper has exited after the guard was dropped, leaving keys with a
\* TTL behind: it was not waiting for a notification only.
C22_Witness == dropPc = "dropped" /\ rpc = "done" /\ expirations # {}

\* C23: when the peer has closed the stream and read_buf returns 0,
\* read_frame returns Ok(None) and the handler ends with Ok if and only if
\* the read buffer is empty at that moment; with bytes of an unfinished
\* frame buffered read_frame fails and the handler ends with Err. The
\* handler ends with Ok in no other way.
C23_CleanCloseIffBufferEmpty ==
    /\ [][(cpc = "read_buf" /\ cpc' = "returned")
             => /\ ~sockOpen /\ sock = << >>
                /\ cres' = IF cbuf = << >> THEN "ok" ELSE "err"]_vars
    /\ [][(cres # "ok" /\ cres' = "ok")
             => (cpc = "read_buf" /\ cbuf = << >> /\ ~sockOpen)]_vars
    /\ [](cpc = "read_buf" => parse_frame(cbuf).kind = "none")

\* The peer closed after a command was answered and the handler ended Ok.
C23_Witness == cpc = "returned" /\ cres = "ok" /\ ~sockOpen /\ cout # << >>

\* C24: for every byte buffer, Frame::check returns Ok if and only if
\* Frame::parse from position zero succeeds, and then both leave the cursor
\* at the same position.
C24_CheckAgreesWithParse ==
    (fchk # None /\ fprs # None) =>
        /\ Unwrap(fchk).tag = "ok" <=> Unwrap(fprs).tag = "ok"
        /\ Unwrap(fchk).tag = "ok" => Unwrap(fchk).pos = Unwrap(fprs).pos

\* C25: for every frame without a nested array, the bytes written by
\* write_frame are accepted by check and parsed back by parse to a frame
\* equal to the one written, both consuming exactly the written bytes.
C25_WriteThenParseRoundTrip ==
    (fsrc # None /\ fchk # None /\ fprs # None) =>
        /\ Unwrap(fchk) = Ok(Len(fbuf), << >>)
        /\ Unwrap(fprs) = Ok(Len(fbuf), Unwrap(fsrc))

\* An array of a bulk holding CR LF and a Null was written, checked and
\* parsed.
C25_Witness ==
    /\ fsrc = Some([t |-> "Array",
                    elems |-> <<[t |-> "Bulk", v |-> <<"CR", "LF">>],
                                [t |-> "Null", v |-> << >>]>>])
    /\ fchk # None
    /\ fprs # None

\* A handler inside a streaming (SUBSCRIBE) command with nothing to read and
\* an idle peer, after the shutdown broadcast has fired.
SubIdleAtShutdown(c) ==
    /\ hpc[c] = "apply"
    /\ hcmd[c] = "sub"
    /\ ~avail[c]
    /\ peerOpen[c]
    /\ ~notifyOpen

\* C26: when the shutdown signal fires while a handler is inside a streaming
\* command, the command returns cleanly with is_shutdown latched by the
\* observer it was given, the handler at the head of its loop with the latch
\* set returns Ok without going to the select! to read another frame, and a
\* handler with nothing else to do does all this unless the peer acts first.
C26_StreamingCommandEndsOnShutdown ==
    /\ [][\A c \in Conns :
            (SubIdleAtShutdown(c) /\ hpc'[c] # hpc[c])
               => (hpc'[c] = "loop" /\ hshut'[c] /\ hres'[c] = hres[c])]_vars
    /\ [][\A c \in Conns :
            (hpc[c] = "loop" /\ hshut[c] /\ hpc'[c] # hpc[c])
               => (hpc'[c] = "returned" /\ hres'[c] = "ok")]_vars
    /\ \A c \in Conns :
          SubIdleAtShutdown(c)
             ~> ((hpc[c] = "returned" /\ hres[c] = "ok") \/ avail[c] \/ ~peerOpen[c])

\* A streaming command has just returned on the shutdown signal: the handler
\* is back at the head of its loop with the latch set.
C26_Witness == \E c \in Conns : hpc[c] = "loop" /\ hshut[c] /\ ~notifyOpen

\* The step is the locked part of a set: opRet holds what that set did.
SetStep == opRet' # None /\ Unwrap(opRet').op = "set"

\* C27: the locked part of set(k, v, ttl) leaves a notification owed if and
\* only if a TTL is given and the index, as set finds it, is empty or has a
\* head strictly later than the new expires_at; it never notifies itself;
\* and the reaper's wake permit is only ever set by a set that has released
\* the mutex and owes a notification, or by the drop of the guard.
C27_SetNotifiesIffEarlier ==
    /\ [][SetStep =>
            /\ pendingNotify' \in {pendingNotify, pendingNotify + 1}
            /\ (pendingNotify' = pendingNotify + 1)
                  <=> /\ Unwrap(opRet').new # None
                      /\ \/ expirations = {}
                         \/ \A p \in expirations : p[1] > Unwrap(Unwrap(opRet').new)
            /\ notifyPermit' = notifyPermit]_vars
    /\ [][(notifyPermit' /\ ~notifyPermit)
             => \/ pendingNotify > 0 /\ pendingNotify' = pendingNotify - 1
                \/ dropPc = "flagged" /\ dropPc' = "dropped"]_vars

\* A set with a TTL earlier than everything in a non-empty index has released
\* the mutex and owes its notification.
C27_Witness ==
    /\ opRet # None
    /\ Unwrap(opRet).op = "set"
    /\ Unwrap(opRet).new # None
    /\ pendingNotify = 1
    /\ \E p \in expirations : p[1] > Unwrap(Unwrap(opRet).new)

\* The step is one call of purge_expired_keys by the reaper.
PurgeStep == rpc = "purge" /\ rpc' # "purge"

\* The pairs of the index that are due at the clock value t.
Due(t) == {p \in expirations : p[1] <= t}

\* C28: one call of purge_expired_keys at the clock value `now`, the store
\* not shut down, removes exactly the pairs with instant <= now and the
\* entries of their keys, leaves every other pair and entry as it is and
\* returns the least instant left (the reaper sleeps until it), or None when
\* the index is left empty (the reaper waits for a notification); with the
\* shutdown flag set it removes nothing and returns None.
C28_PurgeRemovesExactlyDue ==
    [][PurgeStep =>
         IF dbShutdown
           THEN entries' = entries /\ expirations' = expirations /\ rpc' = "wait"
           ELSE /\ expirations' = expirations \ Due(now)
                /\ entries' = [k \in Keys |->
                                 IF \E p \in Due(now) : p[2] = k THEN None
                                                                  ELSE entries[k]]
                /\ IF expirations' = {}
                     THEN rpc' = "wait"
                     ELSE /\ rpc' = "sleep"
                          /\ \E p \in expirations' :
                                /\ rwhen' = p[1]
                                /\ \A q \in expirations' : p[1] <= q[1]]_vars

\* A purge has just removed the entry of one key, whose instant had come, and
\* left another key, due later, in the index: the reaper sleeps until then.
C28_Witness ==
    /\ rpc = "sleep"
    /\ rwhen > now
    /\ expirations # {}
    /\ \E k \in Keys :
          /\ entries[k] = None
          /\ lastSet[k] # None
          /\ ExpiresAt(lastSet[k]) # None
          /\ Unwrap(ExpiresAt(lastSet[k])) <= now

\* The reaper is blocked: in its select! of sleep_until and notified, or in
\* notified alone.
ReaperBlocked == rpc \in {"sleep", "wait"}

\* The reaper will wake in time: a wake permit is pending, or it sleeps with
\* a deadline no later than the earliest instant in the index, or it waits
\* for a notification only and the index is empty.
WakesInTime ==
    \/ notifyPermit
    \/ rpc = "sleep" /\ \A p \in expirations : rwhen <= p[1]
    \/ rpc = "wait" /\ expirations = {}

\* C29 (as stated): in every reachable state where the reaper is blocked and
\* the store is not shut down, the reaper will wake in time.
C29_ReaperNeverOversleeps == (ReaperBlocked /\ ~dbShutdown) => WakesInTime

\* C29 (amended): in every reachable state where the reaper is blocked and
\* the store is not shut down, the reaper will wake in time or a set that has
\* released the mutex is about to call notify_one.
C29_ReaperWakesOrNotifyOwed ==
    (ReaperBlocked /\ ~dbShutdown) => (WakesInTime \/ pendingNotify > 0)

\* A set has put a key with a TTL into the index while the reaper waits for
\* a notification only, and its wake permit is pending.
C29_Witness ==
    /\ rpc = "wait"
    /\ ~dbShutdown
    /\ expirations # {}
    /\ notifyPermit
    /\ pendingNotify = 0

\* C30: an entry disappears only in a purge of the reaper and only when the
\* binding it then holds has an expires_at that the clock has reached; so a
\* key whose latest set had no TTL, or a TTL that is not yet reached, holds
\* the binding of that set, whatever earlier sets of the key asked for.
C30_NoPrematureExpiry ==
    /\ [][\A k \in Keys :
            (entries[k] # None /\ entries'[k] = None)
               => /\ PurgeStep
                  /\ ExpiresAt(entries[k]) # None
                  /\ Unwrap(ExpiresAt(entries[k])) <= now]_vars
    /\ [](\A k \in Keys :
            (lastSet[k] # None
             /\ (ExpiresAt(lastSet[k]) = None \/ Unwrap(ExpiresAt(lastSet[k])) > now))
               => entries[k] = lastSet[k])

\* The reaper has purged at a clock value past the start: the key whose
\* latest set had a TTL that was reached is gone, and the other key, whose
\* latest set had none, is still there.
C30_Witness ==
    /\ rpc = "wait"
    /\ now > 0
    /\ \E k, j \in Keys :
          /\ entries[k] = None
          /\ ExpiresAt(lastSet[k]) # None
          /\ lastSet[j] # None
          /\ ExpiresAt(lastSet[j]) = None
          /\ entries[j] = lastSet[j]

\* The frames a byte stream holds from position pos on, decoded one after
\* the other, up to the first place where no complete valid frame starts.
RECURSIVE StreamFrames(_, _)
StreamFrames(buf, pos) ==
    IF pos >= Len(buf)
      THEN << >>
      ELSE LET f == Parse(buf, pos) IN
           IF f.tag = "ok" THEN <<f.val>> \o StreamFrames(buf, f.pos) ELSE << >>

\* The bytes write_frame produces for a sequence of frames, one after the other.
RECURSIVE WriteFrames(_)
WriteFrames(frames) ==
    IF frames = << >> THEN << >> ELSE write_frame(Head(frames)) \o WriteFrames(Tail(frames))

\* The stream is a concatenation of valid complete frames.
ValidStream(buf) == WriteFrames(StreamFrames(buf, 0)) = buf

\* What the peer may still send to end the frame it is in the middle of: the
\* end of any chunk, or nothing.
Completions == UNION { { SubSeq(c, i, Len(c)) : i \in 1..(Len(c) + 1) } : c \in Chunks }

\* The bytes sent so far are the beginning of a concatenation of valid
\* complete frames.
ValidSoFar(buf) ==
    LET whole == WriteFrames(StreamFrames(buf, 0))
        rest  == SubSeq(buf, Len(whole) + 1, Len(buf))
    IN  /\ whole = SubSeq(buf, 1, Len(whole))
        /\ \/ rest = << >>
           \/ \E ext \in Completions :
                  LET f == Parse(rest \o ext, 0) IN
                  f.tag = "ok" /\ write_frame(f.val) = rest \o ext

\* C31: on a stream of valid complete frames, successive read_frame calls
\* return the frames of the stream in order, however the socket chunks the
\* bytes: the bytes sent are always the bytes of the frames returned so far,
\* then the read buffer, then the bytes not read yet (nothing lost, nothing
\* parsed twice); each call that returns a frame removes exactly that
\* frame's bytes from the front of the buffer and leaves the rest buffered;
\* the frames returned are the first frames of the stream, and once the
\* whole stream has been read and the handler waits for more, every frame
\* of it has been returned.
C31_ReadFrameReturnsStreamInOrder ==
    /\ [](ValidSoFar(cstream) => cstream = WriteFrames(cframes) \o cbuf \o sock)
    /\ [][(ValidSoFar(cstream) /\ cframes' # cframes)
             => /\ cframe' # None
                /\ cframes' = Append(cframes, Unwrap(cframe'))
                /\ cbuf = write_frame(Unwrap(cframe')) \o cbuf'
                /\ sock' = sock]_vars
    /\ [](ValidSoFar(cstream) => cframes = SubSeq(StreamFrames(cstream, 0), 1, Len(cframes)))
    /\ []((ValidStream(cstream) /\ cpc = "read_buf" /\ sock = << >>)
             => cframes = StreamFrames(cstream, 0))

\* Two different frames, one of them sent in two chunks, have both been
\* returned and the handler waits for more with nothing left over.
C31_Witness ==
    /\ Len(cframes) = 2
    /\ cframes[1] # cframes[2]
    /\ ValidStream(cstream)
    /\ cframes = StreamFrames(cstream, 0)
    /\ cpc = "read_buf"
    /\ cbuf = << >>
    /\ sock = << >>

\* C32: the store is shut down once, and only after the drain: the
\* shutdown flag is false while any handler is alive; it is set by the very
\* step on which server::run returns, with no sender clone of a handler
\* left; it is set exactly when run has returned, and never cleared.
C32_StoreShutDownOnlyAfterDrain ==
    /\ []((\E c \in Conns : Alive(c)) => ~dbShutdown)
    /\ [][(~dbShutdown /\ dbShutdown')
             => (runPc = "drain" /\ runPc' = "returned" /\ senders = 0)]_vars
    /\ [](dbShutdown <=> runPc = "returned")
    /\ [][dbShutdown => dbShutdown']_vars

\* The store has been shut down on a shutdown signal, after the handlers of
\* two connections were drained.
C32_Witness ==
    /\ dbShutdown
    /\ runRes = "signal"
    /\ nconn >= 2
    /\ \A c \in 1..nconn : hpc[c] = "done"

\* A step of Db::publish on channel ch.
PublishStep(ch) == published'[ch] = published[ch] + 1

\* C33: the registry changes only when subscribe meets a channel that has
\* no sender, and then gains that channel with a new sender; no step removes
\* a channel, so the channel of every receiver handed out stays registered
\* when its receivers are dropped; a channel never gets a second sender, a
\* later subscribe takes its receiver from the one there; publish leaves the
\* registry, entries and expirations as they are, and with no subscriber
\* it returns 0 and nothing is retained for anyone.
C33_RegistryChangesOnlyOnFirstSubscribe ==
    /\ [][pub_sub' # pub_sub
             => \E ch \in Channels :
                    /\ ch \notin pub_sub
                    /\ pub_sub' = pub_sub \cup {ch}
                    /\ txMade' = [txMade EXCEPT ![ch] = 1]
                    /\ psRet' # None
                    /\ Unwrap(psRet').op = "subscribe"
                    /\ Unwrap(psRet').ch = ch]_vars
    /\ [][txMade' # txMade => pub_sub' # pub_sub]_vars
    /\ [][pub_sub \subseteq pub_sub']_vars
    /\ [](\A r \in Recvs : rxState[r] # "none" => Unwrap(rxCh[r]) \in pub_sub)
    /\ [](\A ch \in Channels : txMade[ch] = IF ch \in pub_sub THEN 1 ELSE 0)
    /\ [][\A ch \in Channels :
             PublishStep(ch)
               => /\ pub_sub' = pub_sub
                  /\ entries' = entries
                  /\ expirations' = expirations
                  /\ (LiveOn(ch) = {}
                        => /\ Unwrap(psRet').n = 0
                           /\ rxq' = rxq
                           /\ rxLag' = rxLag)]_vars

\* A subscribe has just returned a receiver on a channel all of whose
\* earlier receivers had been dropped, after publishes on it: the channel
\* was still registered and no second sender was made.
C33_Witness ==
    /\ psRet # None
    /\ Unwrap(psRet).op = "subscribe"
    /\ LET ch == Unwrap(psRet).ch
           r2 == Unwrap(psRet).rx
       IN  /\ LiveOn(ch) = {r2}
           /\ \E r1 \in Recvs : r1 < r2 /\ rxCh[r1] = Some(ch) /\ rxState[r1] = "dropped"
           /\ published[ch] > 0
           /\ txMade[ch] = 1

====
